---- MODULE Spec2Model ----
(***************************************************************************)
(* Progress / streak state machine of the audio-lesson tracker.            *)
(*                                                                         *)
(* State: the persisted library (podcasts, collections), the persisted     *)
(* streak record (streakData), the App component's transient state         *)
(* (current podcast, review prompt, queued next lesson) and the clock.     *)
(* Calendar dates are day numbers; the ISO string of a date is compared    *)
(* only for equality in the code, and "yesterday" is the day before.       *)
(***************************************************************************)
EXTENDS Integers, Sequences, FiniteSets, TLC

\* ------------------------------------------------------------------ bounds
MaxDay == 4
MaxLib == 4

\* ------------------------------------------------------- program constants
NULL == "null"
NoDate == -1
HistoryKeep == 365
GoalEasy == 1
GoalNormal == 1
GoalHard == 2
GoalExtreme == 3

Difficulties == {"easy", "normal", "hard", "extreme"}

Ids == {"p1", "p2", "p3"}

\* ids of the files used for the display order (id = file name + lastModified)
SortIds == {"s10", "s2", "sIntro", "s1", "sa2", "sa10", "s2a", "sb"}

\* file name without extension, as a sequence of characters
FileName(id) ==
    CASE id = "p1" -> <<"2">>
      [] id = "p2" -> <<"1", "0">>
      [] id = "p3" -> <<"a">>
      [] id = "s10" -> <<"1", "0">>
      [] id = "s2" -> <<"2">>
      [] id = "sIntro" -> <<"I", "n", "t", "r", "o">>
      [] id = "s1" -> <<"1">>
      [] id = "sa2" -> <<"a", "2">>
      [] id = "sa10" -> <<"a", "1", "0">>
      [] id = "s2a" -> <<"2", "a">>
      [] id = "sb" -> <<"b">>
      [] OTHER -> <<"x">>

DEFAULT_COLLECTIONS == <<[id |-> "default-collection", name |-> "My First Collection"]>>

CollIds == {"default-collection", "coll-1"}

\* the two lessons of the library specifications
LibIds == {"p1", "p2"}

\* audio.duration of an uploaded file, and positions of the playhead
DurationVals == {0, 60, 100}
ProgressVals == {0, 50, 98, 99}

VARIABLES
    now,                  \* the wall-clock calendar date (new Date())
    todayStr,             \* useStreak's todayStr, memoised when the hook mounts
    streakData,           \* persisted StreakData
    podcasts,             \* persisted Podcast[]
    collections,          \* persisted Collection[]
    reviewModeEnabled,    \* persisted setting
    useCollectionsView,   \* persisted setting
    title,                \* persisted setting (appTitle)
    theme,                \* persisted setting
    hideCompleted,        \* persisted setting
    customArtwork,        \* persisted setting: a data URL or null
    completionSound,      \* persisted setting
    playOnNavigate,       \* persisted setting
    currentPodcastId,
    isPlaying,
    isPlayerExpanded,
    activePlayerTime,
    reviewPrompt,         \* the ids of podcastToReview / podcastToPlay
    nextPodcastOnEnd,
    currentView,
    podcastsToCategorize, \* the categorize modal is open iff this is not empty
    lastOp,               \* history: the operation that produced this state
    calledToday,          \* history: ids passed to recordCompletion on date now
    cleanToday,           \* history: no unrecordCompletion on date now
    queuedBy,             \* history: the review lesson that set nextPodcastOnEnd
    audioTime,            \* Player: currentTime of the mounted audio element
    debounce,             \* Player: progressUpdateDebounceRef of the mounted Player
    orphans               \* timers left pending by Players that have unmounted

clockVars == <<now, todayStr>>
ghostVars == <<calledToday, cleanToday>>
libVars == <<podcasts, collections>>
prefVars == <<title, theme, hideCompleted, customArtwork, completionSound, playOnNavigate>>
settingsVars == <<reviewModeEnabled, useCollectionsView, prefVars>>
playVars == <<currentPodcastId, isPlaying, isPlayerExpanded, activePlayerTime>>
reviewVars == <<reviewPrompt, nextPodcastOnEnd, queuedBy>>
uiVars == <<currentView, podcastsToCategorize>>
appVars == <<playVars, reviewVars, uiVars>>
playerVars == <<audioTime, debounce, orphans>>
vars == <<now, todayStr, streakData, podcasts, collections, reviewModeEnabled,
          useCollectionsView, title, theme, hideCompleted, customArtwork,
          completionSound, playOnNavigate, currentPodcastId, isPlaying, isPlayerExpanded,
          activePlayerTime, reviewPrompt, nextPodcastOnEnd, currentView,
          podcastsToCategorize, lastOp, calledToday, cleanToday, queuedBy,
          audioTime, debounce, orphans>>

\* ------------------------------------------------------- sequence helpers
Range(s) == {s[i] : i \in DOMAIN s}

Contains(s, x) == \E i \in DOMAIN s : s[i] = x

\* [...new Set(s)]: the first occurrence of every element, in order
Dedup(s) ==
    LET firsts == {i \in DOMAIN s : \A j \in 1..(i - 1) : s[j] # s[i]}
        nth(k) == CHOOSE i \in firsts : Cardinality({j \in firsts : j < i}) = k - 1
    IN IF firsts = DOMAIN s THEN s
       ELSE [k \in 1..Cardinality(firsts) |-> s[nth(k)]]

\* [...new Set([...s, x])]
AppendUnique(s, x) == Dedup(Append(s, x))

\* s.slice(-n)
LastN(s, n) == IF Len(s) <= n THEN s ELSE SubSeq(s, Len(s) - n + 1, Len(s))

\* s.filter(e => e !== x)
RECURSIVE Without(_, _)
Without(s, x) ==
    IF s = <<>> THEN <<>>
    ELSE IF Head(s) = x THEN Without(Tail(s), x)
         ELSE <<Head(s)>> \o Without(Tail(s), x)

\* ------------------------------------------------------------ streak engine
INITIAL_STREAK_DATA ==
    [enabled |-> TRUE,
     lastListenDate |-> NoDate,
     currentStreak |-> 0,
     history |-> <<>>,
     difficulty |-> "normal",
     completionDate |-> NoDate,
     completedToday |-> <<>>]

STREAK_GOALS ==
    [d \in Difficulties |->
        CASE d = "easy" -> GoalEasy
          [] d = "normal" -> GoalNormal
          [] d = "hard" -> GoalHard
          [] d = "extreme" -> GoalExtreme]

\* today: the memoised todayStr of the hook
getTodaysCompletions(data, today) ==
    IF data.completionDate = today THEN data.completedToday ELSE <<>>

\* updateStreak without its own same-date check
updateStreak_NoSameDateCheck(data, cur) ==
    LET yesterday == cur - 1
        isConsecutive == data.lastListenDate = yesterday
        newCurrentStreak == IF isConsecutive THEN data.currentStreak + 1 ELSE 1
    IN [data EXCEPT !.lastListenDate = cur,
                    !.currentStreak = newCurrentStreak,
                    !.history = LastN(AppendUnique(data.history, cur), HistoryKeep)]

\* updateStreak that restarts a broken streak at 0
updateStreak_ResetsToZero(data, cur) ==
    IF data.lastListenDate = cur THEN data
    ELSE [data EXCEPT !.lastListenDate = cur,
                      !.currentStreak = IF data.lastListenDate = cur - 1
                                        THEN data.currentStreak + 1 ELSE 0,
                      !.history = LastN(AppendUnique(data.history, cur), HistoryKeep)]

\* updateStreak that counts every awarded day, consecutive or not
updateStreak_CountsEveryAward(data, cur) ==
    IF data.lastListenDate = cur THEN data
    ELSE [data EXCEPT !.lastListenDate = cur,
                      !.currentStreak = data.currentStreak + 1,
                      !.history = LastN(AppendUnique(data.history, cur), HistoryKeep)]

\* cur: new Date() at the time of the call
updateStreak(data, cur) ==
    IF data.lastListenDate = cur THEN data
    ELSE LET yesterday == cur - 1
             isConsecutive == data.lastListenDate = yesterday
             newCurrentStreak == IF isConsecutive THEN data.currentStreak + 1 ELSE 1
             newHistory == LastN(AppendUnique(data.history, cur), HistoryKeep)
         IN [data EXCEPT !.lastListenDate = cur,
                         !.currentStreak = newCurrentStreak,
                         !.history = newHistory]

\* closure: the streakData of the render that created the callback;
\* prevData: the state the updater function is applied to
recordActivity(closure, prevData, today, cur) ==
    IF closure.difficulty # "easy" THEN prevData
    ELSE IF prevData.lastListenDate = today THEN prevData
    ELSE updateStreak(prevData, cur)

recordCompletion(closure, prevData, podcastId, today, cur) ==
    IF closure.difficulty = "easy" THEN prevData
    ELSE LET todaysCompletions == getTodaysCompletions(prevData, today)
             newCompletedToday == AppendUnique(todaysCompletions, podcastId)
             updatedData == [prevData EXCEPT !.completedToday = newCompletedToday,
                                             !.completionDate = today]
             goal == STREAK_GOALS[updatedData.difficulty]
         IN IF Len(newCompletedToday) >= goal /\ updatedData.lastListenDate # today
            THEN updateStreak(updatedData, cur)
            ELSE updatedData

\* unrecordCompletion that takes today's award back when the count drops
unrecordCompletion_RevokesAward(closure, prevData, podcastId, today) ==
    IF closure.difficulty = "easy" THEN prevData
    ELSE LET newCompletedToday == Without(getTodaysCompletions(prevData, today), podcastId)
             revoke == /\ prevData.lastListenDate = today
                       /\ Len(newCompletedToday) < STREAK_GOALS[prevData.difficulty]
         IN [prevData EXCEPT !.completedToday = newCompletedToday,
                             !.completionDate = today,
                             !.currentStreak = IF revoke THEN @ - 1 ELSE @,
                             !.lastListenDate = IF revoke THEN NoDate ELSE @]

unrecordCompletion(closure, prevData, podcastId, today) ==
    IF closure.difficulty = "easy" THEN prevData
    ELSE LET todaysCompletions == getTodaysCompletions(prevData, today)
             newCompletedToday == Without(todaysCompletions, podcastId)
         IN [prevData EXCEPT !.completedToday = newCompletedToday,
                             !.completionDate = today]

isTodayComplete(data, today) ==
    IF ~data.enabled THEN FALSE
    ELSE IF data.difficulty = "easy" THEN data.lastListenDate = today
    ELSE Len(getTodaysCompletions(data, today)) >= STREAK_GOALS[data.difficulty]

\* ------------------------------------------- String.prototype.localeCompare
\* a.localeCompare(b, undefined, {numeric: true, sensitivity: 'base'}):
\* the strings are compared left to right by primary weight; punctuation
\* sorts before digits, digits before letters; upper and lower case have the
\* same primary weight; a maximal run of digits counts as one number.
Digits == <<"0", "1", "2", "3", "4", "5", "6", "7", "8", "9">>
LowerCase == <<"a", "b", "c", "d", "e", "f", "g", "h", "i", "j", "k", "l", "m",
               "n", "o", "p", "q", "r", "s", "t", "u", "v", "w", "x", "y", "z">>
UpperCase == <<"A", "B", "C", "D", "E", "F", "G", "H", "I", "J", "K", "L", "M",
               "N", "O", "P", "Q", "R", "S", "T", "U", "V", "W", "X", "Y", "Z">>

IsDigit(c) == Contains(Digits, c)
DigitVal(c) == (CHOOSE i \in DOMAIN Digits : Digits[i] = c) - 1
IsLetter(c) == Contains(LowerCase, c) \/ Contains(UpperCase, c)
LetterRank(c) ==
    IF Contains(LowerCase, c) THEN CHOOSE i \in DOMAIN LowerCase : LowerCase[i] = c
    ELSE CHOOSE i \in DOMAIN UpperCase : UpperCase[i] = c

\* the length of the run of digits at the head of s
RECURSIVE DigitRun(_)
DigitRun(s) ==
    IF s = <<>> \/ ~IsDigit(Head(s)) THEN 0 ELSE 1 + DigitRun(Tail(s))

RECURSIVE NumVal(_, _)
NumVal(s, acc) ==
    IF s = <<>> THEN acc ELSE NumVal(Tail(s), 10 * acc + DigitVal(Head(s)))

\* collation key: a sequence of <<class, weight>>, class 0 punctuation,
\* 1 number, 2 letter
RECURSIVE CollationKey(_)
CollationKey(s) ==
    IF s = <<>> THEN <<>>
    ELSE IF IsDigit(Head(s))
         THEN LET n == DigitRun(s)
              IN <<<<1, NumVal(SubSeq(s, 1, n), 0)>>>> \o CollationKey(SubSeq(s, n + 1, Len(s)))
         ELSE IF IsLetter(Head(s))
              THEN <<<<2, LetterRank(Head(s))>>>> \o CollationKey(Tail(s))
              ELSE <<<<0, 0>>>> \o CollationKey(Tail(s))

RECURSIVE CompareKeys(_, _)
CompareKeys(k1, k2) ==
    IF k1 = <<>> THEN (IF k2 = <<>> THEN 0 ELSE -1)
    ELSE IF k2 = <<>> THEN 1
    ELSE LET a == Head(k1)
             b == Head(k2)
         IN IF a[1] # b[1] THEN (IF a[1] < b[1] THEN -1 ELSE 1)
            ELSE IF a[2] # b[2] THEN (IF a[2] < b[2] THEN -1 ELSE 1)
            ELSE CompareKeys(Tail(k1), Tail(k2))

\* collation key that takes every digit on its own (numeric: false)
RECURSIVE CollationKey_NoNumeric(_)
CollationKey_NoNumeric(s) ==
    IF s = <<>> THEN <<>>
    ELSE IF IsDigit(Head(s))
         THEN <<<<1, DigitVal(Head(s))>>>> \o CollationKey_NoNumeric(Tail(s))
         ELSE IF IsLetter(Head(s))
              THEN <<<<2, LetterRank(Head(s))>>>> \o CollationKey_NoNumeric(Tail(s))
              ELSE <<<<0, 0>>>> \o CollationKey_NoNumeric(Tail(s))

\* localeCompare without the numeric option
localeCompare_NoNumeric(a, b) ==
    CompareKeys(CollationKey_NoNumeric(a), CollationKey_NoNumeric(b))

localeCompare(a, b) == CompareKeys(CollationKey(a), CollationKey(b))

internalSort(a, b) == localeCompare(a.name, b.name)

\* Array.prototype.sort is stable: x goes before the first element that
\* compares greater than it
RECURSIVE InsertSorted(_, _)
InsertSorted(sorted, x) ==
    IF sorted = <<>> THEN <<x>>
    ELSE IF internalSort(x, Head(sorted)) < 0 THEN <<x>> \o sorted
         ELSE <<Head(sorted)>> \o InsertSorted(Tail(sorted), x)

RECURSIVE SortFrom(_, _)
SortFrom(list, acc) ==
    IF list = <<>> THEN acc ELSE SortFrom(Tail(list), InsertSorted(acc, Head(list)))

allPodcastsSorted(list) == SortFrom(list, <<>>)

\* ------------------------------------------------------------ library store
\* prev.map(f)
MapSeq(list, f(_)) == [i \in DOMAIN list |-> f(list[i])]

\* list.findIndex(p => p.id === id), 0 for -1
FindIndex(list, id) ==
    IF \E i \in DOMAIN list : list[i].id = id
    THEN CHOOSE i \in DOMAIN list : list[i].id = id /\ \A j \in 1..(i - 1) : list[j].id # id
    ELSE 0

HasId(list, id) == FindIndex(list, id) # 0

\* list.find(p => p.id === id), for an id that is present
Find(list, id) == list[FindIndex(list, id)]

IdsOf(list) == {list[i].id : i \in DOMAIN list}

\* the Podcast a successful upload produces
newPodcast(id, duration) ==
    [id |-> id, name |-> FileName(id), duration |-> duration, progress |-> 0,
     isListened |-> FALSE, storage |-> "indexeddb", collectionId |-> NULL]

\* updateProgressMap that recomputes isListened from the position alone
updateProgressMap_Reverts(prev, id, progress) ==
    LET f(p) == IF p.id = id
                THEN [p EXCEPT !.progress = progress,
                               !.isListened = p.duration > 0 /\ progress >= p.duration - 1]
                ELSE p
    IN MapSeq(prev, f)

\* setPodcasts updater of updatePodcastProgress
updateProgressMap(prev, id, progress) ==
    LET f(p) == IF p.id = id
                THEN LET isFinished == p.duration > 0 /\ progress >= p.duration - 1
                     IN [p EXCEPT !.progress = progress,
                                  !.isListened = p.isListened \/ isFinished]
                ELSE p
    IN MapSeq(prev, f)

\* podcastWasCompleted that is set whenever the position is at the end
podcastWasCompleted_EveryUpdate(prev, id, progress) ==
    \E i \in DOMAIN prev :
        /\ prev[i].id = id
        /\ prev[i].duration > 0 /\ progress >= prev[i].duration - 1

podcastWasCompleted(prev, id, progress) ==
    \E i \in DOMAIN prev :
        /\ prev[i].id = id
        /\ prev[i].duration > 0 /\ progress >= prev[i].duration - 1
        /\ ~prev[i].isListened

\* updatePodcastDuration that overwrites a known duration
updatePodcastDuration_Overwrites(prev, id, duration) ==
    LET f(p) == IF p.id = id THEN [p EXCEPT !.duration = duration] ELSE p
    IN MapSeq(prev, f)

updatePodcastDuration(prev, id, duration) ==
    LET f(p) == IF p.id = id /\ p.duration = 0 THEN [p EXCEPT !.duration = duration] ELSE p
    IN MapSeq(prev, f)

\* deleteCollectionPodcasts that removes the lessons of the collection
RECURSIVE deleteCollectionPodcasts_Removes(_, _)
deleteCollectionPodcasts_Removes(prev, id) ==
    IF prev = <<>> THEN <<>>
    ELSE IF Head(prev).collectionId = id THEN deleteCollectionPodcasts_Removes(Tail(prev), id)
         ELSE <<Head(prev)>> \o deleteCollectionPodcasts_Removes(Tail(prev), id)

\* handleDeleteCollection: the two updaters
deleteCollectionPodcasts(prev, id) ==
    LET f(p) == IF p.collectionId = id THEN [p EXCEPT !.collectionId = NULL] ELSE p
    IN MapSeq(prev, f)

RECURSIVE FilterOutId(_, _)
FilterOutId(list, id) ==
    IF list = <<>> THEN <<>>
    ELSE IF Head(list).id = id THEN FilterOutId(Tail(list), id)
         ELSE <<Head(list)>> \o FilterOutId(Tail(list), id)

deleteCollectionCollections(prev, id) == FilterOutId(prev, id)

movePodcastToCollection(prev, podcastId, newCollectionId) ==
    LET f(p) == IF p.id = podcastId THEN [p EXCEPT !.collectionId = newCollectionId] ELSE p
    IN MapSeq(prev, f)

\* handleAssignToCollection: new Map(prev.map(p => [p.id, p])), then
\* podcastMap.set(p.id, {...p, collectionId}) for each podcast to assign
RECURSIVE MapSetAll(_, _, _)
MapSetAll(list, toAssign, collectionId) ==
    IF toAssign = <<>> THEN list
    ELSE LET p == [Head(toAssign) EXCEPT !.collectionId = collectionId]
             i == FindIndex(list, p.id)
             next == IF i = 0 THEN Append(list, p) ELSE [list EXCEPT ![i] = p]
         IN MapSetAll(next, Tail(toAssign), collectionId)

\* new Map(entries) keeps the first position and the last value of a key
RECURSIVE MapFromEntries(_, _)
MapFromEntries(list, acc) ==
    IF list = <<>> THEN acc
    ELSE LET i == FindIndex(acc, Head(list).id)
         IN MapFromEntries(Tail(list),
                           IF i = 0 THEN Append(acc, Head(list))
                           ELSE [acc EXCEPT ![i] = Head(list)])

\* handleAssignToCollection that appends the batch to the library as it is
assignToCollection_Appends(prev, podcastsToAssign, collectionId) ==
    LET f(p) == [p EXCEPT !.collectionId = collectionId]
    IN prev \o MapSeq(podcastsToAssign, f)

assignToCollection(prev, podcastsToAssign, collectionId) ==
    MapSetAll(MapFromEntries(prev, <<>>), podcastsToAssign, collectionId)


\* ------------------------------------------------------------------- Init
NoPrompt == [show |-> FALSE, podcastToReview |-> NULL, podcastToPlay |-> NULL]

\* the initial values of the title (a fixed Japanese string in the source)
\* and of the theme
DefaultTitle == "Japanese Course"
DefaultTheme == "charcoal"

\* kind: "notJson" (JSON.parse throws), "noPodcasts" (no podcasts field),
\* "podcastsNotArray", "ok" (podcasts is an array of records)
NoDoc == [kind |-> "ok",
          podcasts |-> <<>>,
          collections |-> [present |-> FALSE, value |-> <<>>],
          streakData |-> [present |-> FALSE, value |-> INITIAL_STREAK_DATA],
          reviewModeEnabled |-> [present |-> FALSE, value |-> FALSE],
          useCollectionsView |-> [present |-> FALSE, value |-> FALSE],
          appTitle |-> [present |-> FALSE, value |-> ""],
          theme |-> [present |-> FALSE, value |-> ""],
          hideCompleted |-> [present |-> FALSE, value |-> FALSE],
          customArtwork |-> [present |-> FALSE, value |-> NULL],
          completionSound |-> [present |-> FALSE, value |-> ""],
          playOnNavigate |-> [present |-> FALSE, value |-> FALSE]]

\* no timer pending; at is the playhead the pending timer was set at
NoTimer == [pending |-> FALSE, at |-> 0,
            closure |-> [enabled |-> FALSE, difficulty |-> "easy"]]

\* calls: how many times the step invoked recordCompletion
Op(name, id, n) == [op |-> name, id |-> id, n |-> n, calls |-> 0, doc |-> NoDoc]

InitTransient ==
    /\ currentPodcastId = NULL
    /\ isPlaying = FALSE
    /\ isPlayerExpanded = FALSE
    /\ activePlayerTime = 0
    /\ reviewPrompt = NoPrompt
    /\ nextPodcastOnEnd = NULL
    /\ currentView = NULL
    /\ podcastsToCategorize = <<>>
    /\ queuedBy = NULL
    /\ audioTime = 0
    /\ debounce = NoTimer
    /\ orphans = {}

InitClock ==
    /\ now = 1
    /\ todayStr = now
    /\ calledToday = {}
    /\ cleanToday = TRUE

\* first run: nothing in local storage
InitFirstRun ==
    /\ InitClock
    /\ streakData = INITIAL_STREAK_DATA
    /\ podcasts = <<>>
    /\ collections = DEFAULT_COLLECTIONS
    /\ reviewModeEnabled = FALSE
    /\ useCollectionsView = TRUE
    /\ title = DefaultTitle
    /\ theme = DefaultTheme
    /\ hideCompleted = FALSE
    /\ customArtwork = NULL
    /\ completionSound = "none"
    /\ playOnNavigate = TRUE
    /\ InitTransient
    /\ lastOp = Op("init", NULL, 0)

\* ------------------------------------------------- clock and (re)mounting
\* Midnight passes while the page stays open: new Date() moves on, the
\* memoised todayStr does not.
AdvanceDay ==
    /\ now < MaxDay
    /\ now' = now + 1
    /\ calledToday' = {}
    /\ cleanToday' = TRUE
    /\ lastOp' = Op("advanceDay", NULL, 0)
    /\ UNCHANGED <<todayStr, streakData, libVars, settingsVars, appVars, playerVars>>

\* The page is (re)loaded: every hook mounts again, useState values start
\* from their initial values, useLocalStorage values are read back.
Remount ==
    /\ todayStr' = now
    /\ currentPodcastId' = NULL
    /\ isPlaying' = FALSE
    /\ isPlayerExpanded' = FALSE
    /\ activePlayerTime' = 0
    /\ reviewPrompt' = NoPrompt
    /\ nextPodcastOnEnd' = NULL
    /\ currentView' = NULL
    /\ podcastsToCategorize' = <<>>
    /\ queuedBy' = NULL
    /\ audioTime' = 0
    /\ debounce' = NoTimer
    /\ orphans' = {}
    /\ lastOp' = Op("remount", NULL, 0)
    /\ UNCHANGED <<now, streakData, libVars, settingsVars, ghostVars>>

\* --------------------------------------- streak engine, called directly
RecordActivity ==
    /\ streakData' = recordActivity(streakData, streakData, todayStr, now)
    /\ lastOp' = Op("recordActivity", NULL, 0)
    /\ UNCHANGED <<clockVars, libVars, settingsVars, appVars, ghostVars, playerVars>>

RecordCompletion(id) ==
    /\ streakData' = recordCompletion(streakData, streakData, id, todayStr, now)
    /\ calledToday' = IF streakData.difficulty # "easy" THEN calledToday \cup {id}
                      ELSE calledToday
    /\ lastOp' = [Op("recordCompletion", id, 0) EXCEPT !.calls = 1]
    /\ UNCHANGED <<clockVars, libVars, settingsVars, appVars, cleanToday, playerVars>>

UnrecordCompletion(id) ==
    /\ streakData' = unrecordCompletion(streakData, streakData, id, todayStr)
    /\ cleanToday' = FALSE
    /\ lastOp' = Op("unrecordCompletion", id, 0)
    /\ UNCHANGED <<clockVars, libVars, settingsVars, appVars, calledToday, playerVars>>

\* ------------------------------------------------ settings: streak panel
handleStreakToggle(prev) == [prev EXCEPT !.enabled = ~prev.enabled]

handleDifficultyChange(prev, difficulty) == [prev EXCEPT !.difficulty = difficulty]

StreakToggle ==
    /\ streakData' = handleStreakToggle(streakData)
    /\ lastOp' = Op("streakToggle", NULL, 0)
    /\ UNCHANGED <<clockVars, libVars, settingsVars, appVars, ghostVars, playerVars>>

\* the difficulty buttons are disabled while the streak is switched off
DifficultyChange(d) ==
    /\ streakData.enabled
    /\ d # streakData.difficulty
    /\ streakData' = handleDifficultyChange(streakData, d)
    /\ lastOp' = Op("difficultyChange", d, 0)
    /\ UNCHANGED <<clockVars, libVars, settingsVars, appVars, ghostVars, playerVars>>

\* ---------------------------------------------- specification: the engine
NextStreak ==
    \/ AdvanceDay
    \/ Remount
    \/ RecordActivity
    \/ \E id \in Ids : RecordCompletion(id)
    \/ \E id \in Ids : UnrecordCompletion(id)
    \/ StreakToggle
    \/ \E d \in Difficulties : DifficultyChange(d)

SpecStreak == InitFirstRun /\ [][NextStreak]_vars

\* ------------------------------------------------------ App: the library
\* handleFileUpload from the header (no context collection): the uploads
\* that succeeded are assigned at once in the simple list view, and handed
\* to the categorize modal in the collections view.
FileUpload(batch) ==
    /\ IF ~useCollectionsView
       THEN /\ podcasts' = assignToCollection(podcasts, batch, NULL)
            /\ podcastsToCategorize' = <<>>
       ELSE /\ podcastsToCategorize' = batch
            /\ UNCHANGED podcasts
    /\ lastOp' = Op("fileUpload", batch[1].id, Len(batch))
    /\ UNCHANGED <<clockVars, streakData, collections, settingsVars, playVars,
                   reviewVars, currentView, ghostVars, playerVars>>

\* CategorizeModal: onAssign(collectionId), onClose (collectionId null)
AssignToCollection(collectionId) ==
    /\ podcastsToCategorize # <<>>
    /\ podcasts' = assignToCollection(podcasts, podcastsToCategorize, collectionId)
    /\ podcastsToCategorize' = <<>>
    /\ lastOp' = Op("assignToCollection", collectionId, Len(podcastsToCategorize))
    /\ UNCHANGED <<clockVars, streakData, collections, settingsVars, playVars,
                   reviewVars, currentView, ghostVars, playerVars>>

\* handleCreateCollection: the id is coll-<Date.now()>, the name is trimmed
CreateCollection(id, name) ==
    /\ ~HasId(collections, id)
    /\ collections' = Append(collections, [id |-> id, name |-> name])
    /\ lastOp' = Op("createCollection", id, 0)
    /\ UNCHANGED <<clockVars, streakData, podcasts, settingsVars, appVars, ghostVars,
                   playerVars>>

DeleteCollection(id) ==
    /\ podcasts' = deleteCollectionPodcasts(podcasts, id)
    /\ collections' = deleteCollectionCollections(collections, id)
    /\ currentView' = IF currentView = id THEN NULL ELSE currentView
    /\ lastOp' = Op("deleteCollection", id, 0)
    /\ UNCHANGED <<clockVars, streakData, settingsVars, playVars, reviewVars,
                   podcastsToCategorize, ghostVars, playerVars>>

MovePodcastToCollection(podcastId, newCollectionId) ==
    /\ podcasts' = movePodcastToCollection(podcasts, podcastId, newCollectionId)
    /\ lastOp' = Op("movePodcastToCollection", podcastId, 0)
    /\ UNCHANGED <<clockVars, streakData, collections, settingsVars, appVars, ghostVars,
                   playerVars>>

\* updatePodcastProgress: recordActivity in easy mode, the podcasts updater,
\* and recordCompletion from inside the updater on a completion
updateProgressStreak(closure, prevData, prev, id, progress, today, cur) ==
    LET afterActivity ==
            IF closure.enabled /\ closure.difficulty = "easy"
            THEN recordActivity(closure, prevData, today, cur)
            ELSE prevData
    IN IF podcastWasCompleted(prev, id, progress)
          /\ closure.enabled /\ closure.difficulty # "easy"
       THEN recordCompletion(closure, afterActivity, id, today, cur)
       ELSE afterActivity

\* updatePodcastProgress: the number of recordCompletion(id) calls
recordCompletionCalls(closure, prev, id, progress) ==
    IF podcastWasCompleted(prev, id, progress)
       /\ closure.enabled /\ closure.difficulty # "easy"
    THEN 1 ELSE 0

\* the updatePodcastProgress of an earlier render (the onProgressSave a
\* timer of the Player has captured): closure holds streakData.enabled and
\* streakData.difficulty of that render
progressSaveFrom(closure, id, progress) ==
    /\ podcasts' = updateProgressMap(podcasts, id, progress)
    /\ streakData' = updateProgressStreak(closure, streakData, podcasts, id,
                                          progress, todayStr, now)
    /\ calledToday' = IF podcastWasCompleted(podcasts, id, progress)
                         /\ closure.enabled /\ closure.difficulty # "easy"
                      THEN calledToday \cup {id} ELSE calledToday

\* updatePodcastProgress(id, progress), as the Player's onProgressSave
progressSave(id, progress) == progressSaveFrom(streakData, id, progress)

\* what a timer set in this render keeps of the streak data
timerClosure == [enabled |-> streakData.enabled, difficulty |-> streakData.difficulty]

UpdatePodcastProgress(id, progress) ==
    /\ progressSave(id, progress)
    /\ lastOp' = [Op("updatePodcastProgress", id, progress) EXCEPT
                     !.calls = recordCompletionCalls(streakData, podcasts, id, progress)]
    /\ UNCHANGED <<clockVars, collections, settingsVars, appVars, cleanToday, playerVars>>

UpdatePodcastDuration(id, duration) ==
    /\ podcasts' = updatePodcastDuration(podcasts, id, duration)
    /\ lastOp' = Op("updatePodcastDuration", id, duration)
    /\ UNCHANGED <<clockVars, streakData, collections, settingsVars, appVars, ghostVars,
                   playerVars>>

\* ------------------------------------------------------ App: import
\* x || 0, x || false, x || null for a subfield that may be missing
OrZero(r) == IF "progress" \in r.has /\ r.progress # 0 THEN r.progress ELSE 0
OrFalse(r) == IF "isListened" \in r.has /\ r.isListened THEN r.isListened ELSE FALSE
OrNull(r) == IF "collectionId" \in r.has /\ r.collectionId # NULL THEN r.collectionId ELSE NULL

\* importMerge that also adds the imported lessons the library does not have
RECURSIVE AddUnknown(_, _)
AddUnknown(list, imported) ==
    IF imported = <<>> THEN list
    ELSE LET r == Head(imported)
             p == [newPodcast(r.id, 0) EXCEPT !.progress = OrZero(r),
                                              !.isListened = OrFalse(r),
                                              !.collectionId = OrNull(r)]
         IN AddUnknown(IF HasId(list, r.id) THEN list ELSE Append(list, p), Tail(imported))

importMerge_AddsUnknown(currentPodcasts, imported) ==
    LET importedPodcastsMap == MapFromEntries(imported, <<>>)
        f(currentPodcast) ==
            IF HasId(importedPodcastsMap, currentPodcast.id)
            THEN LET importedPodcast == Find(importedPodcastsMap, currentPodcast.id)
                 IN [currentPodcast EXCEPT !.progress = OrZero(importedPodcast),
                                           !.isListened = OrFalse(importedPodcast),
                                           !.collectionId = OrNull(importedPodcast)]
            ELSE currentPodcast
    IN AddUnknown(MapSeq(currentPodcasts, f), imported)

\* the setPodcasts updater of handleImportData
importMerge(currentPodcasts, imported) ==
    LET importedPodcastsMap == MapFromEntries(imported, <<>>)
        f(currentPodcast) ==
            IF HasId(importedPodcastsMap, currentPodcast.id)
            THEN LET importedPodcast == Find(importedPodcastsMap, currentPodcast.id)
                 IN [currentPodcast EXCEPT !.progress = OrZero(importedPodcast),
                                           !.isListened = OrFalse(importedPodcast),
                                           !.collectionId = OrNull(importedPodcast)]
            ELSE currentPodcast
    IN MapSeq(currentPodcasts, f)

\* if (importedData.field) for a string field: present and not empty
Truthy(field) == field.present /\ field.value # ""

\* handleImportData that accepts any podcasts field that is present
importThrows_ArrayUnchecked(doc) == doc.kind \in {"notJson", "noPodcasts"}

\* handleImportData: JSON.parse throws, or the podcasts check throws
importThrows(doc) ==
    \/ doc.kind = "notJson"
    \/ doc.kind = "noPodcasts"
    \/ doc.kind = "podcastsNotArray"

\* handleImportData, reader.onload; lastOp.n = 1 records the error alert
ImportData(doc) ==
    /\ IF importThrows(doc)
       THEN /\ lastOp' = [op |-> "importData", id |-> NULL, n |-> 1, calls |-> 0, doc |-> doc]
            /\ UNCHANGED <<collections, streakData, settingsVars, podcasts, cleanToday>>
       ELSE /\ collections' = IF doc.collections.present THEN doc.collections.value
                              ELSE collections
            /\ streakData' = IF doc.streakData.present THEN doc.streakData.value
                             ELSE streakData
            /\ reviewModeEnabled' = IF doc.reviewModeEnabled.present
                                    THEN doc.reviewModeEnabled.value ELSE reviewModeEnabled
            /\ useCollectionsView' = IF doc.useCollectionsView.present
                                     THEN doc.useCollectionsView.value
                                     ELSE useCollectionsView
            /\ title' = IF Truthy(doc.appTitle) THEN doc.appTitle.value ELSE title
            /\ theme' = IF Truthy(doc.theme) THEN doc.theme.value ELSE theme
            /\ hideCompleted' = IF doc.hideCompleted.present THEN doc.hideCompleted.value
                                ELSE hideCompleted
            /\ customArtwork' = IF doc.customArtwork.present THEN doc.customArtwork.value
                                ELSE customArtwork
            /\ completionSound' = IF Truthy(doc.completionSound)
                                  THEN doc.completionSound.value ELSE completionSound
            /\ playOnNavigate' = IF doc.playOnNavigate.present THEN doc.playOnNavigate.value
                                 ELSE playOnNavigate
            /\ podcasts' = importMerge(podcasts, doc.podcasts)
            /\ cleanToday' = IF doc.streakData.present THEN FALSE ELSE cleanToday
            /\ lastOp' = [op |-> "importData", id |-> NULL, n |-> 0, calls |-> 0, doc |-> doc]
    /\ UNCHANGED <<clockVars, appVars, calledToday, playerVars>>

\* ------------------------------------------- specification: collections
NextCollections ==
    \/ \E id \in LibIds : FileUpload(<<newPodcast(id, 100)>>)
    \/ \E c \in {NULL} \cup IdsOf(collections) : AssignToCollection(c)
    \/ CreateCollection("coll-1", "Folder")
    \/ \E c \in CollIds : DeleteCollection(c)
    \/ \E id \in LibIds, c \in {NULL} \cup IdsOf(collections) : MovePodcastToCollection(id, c)
    \/ \E id \in LibIds : UpdatePodcastProgress(id, 99)

SpecCollections == InitFirstRun /\ [][NextCollections]_vars

\* ------------------------------------------------ specification: import
ImportRecs ==
    {[id |-> "p1", has |-> {"progress", "isListened", "collectionId"},
      progress |-> 50, isListened |-> TRUE, collectionId |-> "coll-1"],
     [id |-> "p1", has |-> {}, progress |-> 0, isListened |-> FALSE, collectionId |-> NULL],
     [id |-> "p2", has |-> {"progress"}, progress |-> 99, isListened |-> FALSE,
      collectionId |-> NULL],
     [id |-> "p3", has |-> {"progress", "isListened", "collectionId"},
      progress |-> 50, isListened |-> TRUE, collectionId |-> NULL]}

ImportLists == {<<>>} \cup {<<r>> : r \in ImportRecs}
                  \cup {<<r1, r2>> : r1 \in ImportRecs, r2 \in ImportRecs}

ImportDocs ==
    {[NoDoc EXCEPT !.podcasts = list, !.collections = c] :
        list \in ImportLists,
        c \in {[present |-> FALSE, value |-> <<>>],
               [present |-> TRUE, value |-> <<[id |-> "coll-1", name |-> "Folder"]>>]}}
    \cup
    {[NoDoc EXCEPT !.kind = k, !.collections = c, !.reviewModeEnabled = r] :
        k \in {"notJson", "noPodcasts", "podcastsNotArray"},
        c \in {[present |-> FALSE, value |-> <<>>],
               [present |-> TRUE, value |-> <<[id |-> "coll-1", name |-> "Folder"]>>]},
        r \in {[present |-> FALSE, value |-> FALSE], [present |-> TRUE, value |-> TRUE]}}

NextImport ==
    \/ \E id \in LibIds : FileUpload(<<newPodcast(id, 100)>>)
    \/ \E c \in {NULL} \cup IdsOf(collections) : AssignToCollection(c)
    \/ \E id \in LibIds : UpdatePodcastProgress(id, 99)
    \/ \E doc \in ImportDocs : ImportData(doc)

SpecImport == InitFirstRun /\ [][NextImport]_vars

\* ------------------------------------------------ App: review flow
\* startPlayback(id): closure is the podcasts array of the render that
\* created the callback
\* <Player key={currentPodcast.id}>: another id unmounts the Player and
\* mounts a new one; the timer of the old one is not cleared
switchPlayer(id) ==
    IF id = currentPodcastId
    THEN UNCHANGED playerVars
    ELSE /\ audioTime' = 0
         /\ debounce' = NoTimer
         /\ orphans' = IF debounce.pending
                       THEN orphans \cup {[id |-> currentPodcastId, at |-> debounce.at,
                                            closure |-> debounce.closure]}
                       ELSE orphans

startPlayback(closure, id) ==
    /\ activePlayerTime' = IF HasId(closure, id) THEN Find(closure, id).progress
                           ELSE activePlayerTime
    /\ currentPodcastId' = id
    /\ isPlaying' = TRUE
    /\ isPlayerExpanded' = TRUE
    /\ switchPlayer(id)

\* handleSelectPodcast that asks for a review whatever the state of the
\* preceding lesson
handleSelectPodcast_IgnoresCompletion(id) ==
    IF currentPodcastId = id
    THEN /\ isPlaying' = ~isPlaying
         /\ UNCHANGED <<currentPodcastId, isPlayerExpanded, activePlayerTime, reviewPrompt,
                        playerVars>>
    ELSE IF ~HasId(podcasts, id)
    THEN UNCHANGED <<playVars, reviewPrompt, playerVars>>
    ELSE LET sorted == allPodcastsSorted(podcasts)
             currentIndex == FindIndex(sorted, id)
         IN IF ~reviewModeEnabled \/ currentIndex <= 1
            THEN /\ startPlayback(podcasts, id)
                 /\ UNCHANGED reviewPrompt
            ELSE /\ reviewPrompt' = [show |-> TRUE,
                                     podcastToReview |-> sorted[currentIndex - 1].id,
                                     podcastToPlay |-> id]
                 /\ UNCHANGED <<playVars, playerVars>>

\* the review modal covers the page while it is shown
handleSelectPodcast(id) ==
    IF currentPodcastId = id
    THEN /\ isPlaying' = ~isPlaying
         /\ UNCHANGED <<currentPodcastId, isPlayerExpanded, activePlayerTime, reviewPrompt,
                        playerVars>>
    ELSE IF ~HasId(podcasts, id)
    THEN UNCHANGED <<playVars, reviewPrompt, playerVars>>
    ELSE LET sorted == allPodcastsSorted(podcasts)
             currentIndex == FindIndex(sorted, id)
             direct == \/ ~reviewModeEnabled
                       \/ currentIndex <= 1
                       \/ ~sorted[currentIndex - 1].isListened
         IN IF direct
            THEN /\ startPlayback(podcasts, id)
                 /\ UNCHANGED reviewPrompt
            ELSE /\ reviewPrompt' = [show |-> TRUE,
                                     podcastToReview |-> sorted[currentIndex - 1].id,
                                     podcastToPlay |-> id]
                 /\ UNCHANGED <<playVars, playerVars>>

SelectPodcast(id) ==
    /\ ~reviewPrompt.show
    /\ handleSelectPodcast(id)
    /\ lastOp' = Op("selectPodcast", id, 0)
    /\ UNCHANGED <<clockVars, streakData, libVars, settingsVars, nextPodcastOnEnd,
                   queuedBy, uiVars, ghostVars>>

\* allPodcastsSorted.filter(p => p.collectionId === collectionId)
RECURSIVE FilterCollection(_, _)
FilterCollection(list, collectionId) ==
    IF list = <<>> THEN <<>>
    ELSE IF Head(list).collectionId = collectionId
         THEN <<Head(list)>> \o FilterCollection(Tail(list), collectionId)
         ELSE FilterCollection(Tail(list), collectionId)

\* podcastsInCollection.find(p => !p.isListened), 0 for undefined
FirstUnplayed(list) ==
    IF \E i \in DOMAIN list : ~list[i].isListened
    THEN CHOOSE i \in DOMAIN list :
            ~list[i].isListened /\ \A j \in 1..(i - 1) : list[j].isListened
    ELSE 0

handlePlayCollection(collectionId) ==
    LET podcastsInCollection == FilterCollection(allPodcastsSorted(podcasts), collectionId)
        firstUnplayed == FirstUnplayed(podcastsInCollection)
    IN IF firstUnplayed # 0
       THEN startPlayback(podcasts, podcastsInCollection[firstUnplayed].id)
       ELSE IF Len(podcastsInCollection) > 0
            THEN startPlayback(podcasts, podcastsInCollection[1].id)
            ELSE UNCHANGED <<playVars, playerVars>>

\* the play button of a collection card
PlayCollection(collectionId) ==
    /\ ~reviewPrompt.show
    /\ handlePlayCollection(collectionId)
    /\ lastOp' = Op("playCollection", collectionId, 0)
    /\ UNCHANGED <<clockVars, streakData, libVars, settingsVars, reviewVars, uiVars,
                   ghostVars>>

\* handleConfirmReview without the queued target
confirmReviewPodcasts(prev, reviewId) ==
    LET f(p) == IF p.id = reviewId THEN [p EXCEPT !.progress = 0, !.isListened = FALSE] ELSE p
    IN MapSeq(prev, f)

ConfirmReview ==
    /\ reviewPrompt.podcastToReview # NULL /\ reviewPrompt.podcastToPlay # NULL
    /\ LET reviewId == reviewPrompt.podcastToReview
           playId == reviewPrompt.podcastToPlay
       IN /\ nextPodcastOnEnd' = playId
          /\ queuedBy' = reviewId
          /\ podcasts' = confirmReviewPodcasts(podcasts, reviewId)
          /\ streakData' = IF streakData.enabled /\ streakData.difficulty # "easy"
                           THEN unrecordCompletion(streakData, streakData, reviewId, todayStr)
                           ELSE streakData
          /\ cleanToday' = IF streakData.enabled /\ streakData.difficulty # "easy"
                           THEN FALSE ELSE cleanToday
          /\ startPlayback(podcasts, reviewId)
          /\ reviewPrompt' = NoPrompt
          /\ lastOp' = Op("confirmReview", reviewId, 0)
    /\ UNCHANGED <<clockVars, collections, settingsVars, uiVars, calledToday>>

CancelReview ==
    /\ reviewPrompt.podcastToPlay # NULL
    /\ startPlayback(podcasts, reviewPrompt.podcastToPlay)
    /\ reviewPrompt' = NoPrompt
    /\ lastOp' = Op("cancelReview", reviewPrompt.podcastToPlay, 0)
    /\ UNCHANGED <<clockVars, streakData, libVars, settingsVars, nextPodcastOnEnd,
                   queuedBy, uiVars, ghostVars>>

\* handlePlaybackEnd that leaves the queued lesson waiting
playbackEndNext_KeepsQueue(next) == next

\* handlePlaybackEnd: setNextPodcastOnEnd(null) after the queued start
playbackEndNext(next) == NULL

\* handlePlaybackEnd that leaves the completion to the progress updates
playbackEndPodcasts_NoMark(prev, id) == prev

\* handlePlaybackEnd: the setPodcasts updater
playbackEndPodcasts(prev, id) ==
    LET f(p) == IF p.id = id THEN [p EXCEPT !.isListened = TRUE] ELSE p
    IN MapSeq(prev, f)

\* the audio element of the mounted Player fires ended
PlaybackEnd ==
    /\ HasId(podcasts, currentPodcastId)
    /\ podcasts' = playbackEndPodcasts(podcasts, currentPodcastId)
    /\ IF nextPodcastOnEnd # NULL
       THEN /\ startPlayback(podcasts, nextPodcastOnEnd)
            /\ nextPodcastOnEnd' = playbackEndNext(nextPodcastOnEnd)
            /\ queuedBy' = NULL
       ELSE /\ isPlaying' = FALSE
            /\ UNCHANGED <<currentPodcastId, isPlayerExpanded, activePlayerTime,
                           nextPodcastOnEnd, queuedBy, playerVars>>
    /\ lastOp' = [Op("playbackEnd", currentPodcastId, 0) EXCEPT
                     !.n = IF queuedBy = currentPodcastId /\ queuedBy # NULL THEN 1 ELSE 0]
    /\ UNCHANGED <<clockVars, streakData, collections, settingsVars, reviewPrompt,
                   uiVars, ghostVars>>

\* settings: the review mode switch
ReviewModeToggle ==
    /\ ~reviewPrompt.show
    /\ reviewModeEnabled' = ~reviewModeEnabled
    /\ lastOp' = Op("reviewModeToggle", NULL, 0)
    /\ UNCHANGED <<clockVars, streakData, libVars, useCollectionsView, prefVars, appVars,
                   ghostVars, playerVars>>

\* the title input and the setters handed to the settings panel
SetTitle(value) ==
    /\ title' = value
    /\ lastOp' = Op("setTitle", value, 0)
    /\ UNCHANGED <<clockVars, streakData, libVars, reviewModeEnabled, useCollectionsView,
                   theme, hideCompleted, customArtwork, completionSound, playOnNavigate,
                   appVars, ghostVars, playerVars>>

SetTheme(value) ==
    /\ theme' = value
    /\ lastOp' = Op("setTheme", value, 0)
    /\ UNCHANGED <<clockVars, streakData, libVars, reviewModeEnabled, useCollectionsView,
                   title, hideCompleted, customArtwork, completionSound, playOnNavigate,
                   appVars, ghostVars, playerVars>>

SetHideCompleted(value) ==
    /\ hideCompleted' = value
    /\ lastOp' = Op("setHideCompleted", NULL, IF value THEN 1 ELSE 0)
    /\ UNCHANGED <<clockVars, streakData, libVars, reviewModeEnabled, useCollectionsView,
                   title, theme, customArtwork, completionSound, playOnNavigate,
                   appVars, ghostVars, playerVars>>

SetCustomArtwork(value) ==
    /\ customArtwork' = value
    /\ lastOp' = Op("setCustomArtwork", value, 0)
    /\ UNCHANGED <<clockVars, streakData, libVars, reviewModeEnabled, useCollectionsView,
                   title, theme, hideCompleted, completionSound, playOnNavigate,
                   appVars, ghostVars, playerVars>>

SetCompletionSound(value) ==
    /\ completionSound' = value
    /\ lastOp' = Op("setCompletionSound", value, 0)
    /\ UNCHANGED <<clockVars, streakData, libVars, reviewModeEnabled, useCollectionsView,
                   title, theme, hideCompleted, customArtwork, playOnNavigate,
                   appVars, ghostVars, playerVars>>

SetPlayOnNavigate(value) ==
    /\ playOnNavigate' = value
    /\ lastOp' = Op("setPlayOnNavigate", NULL, IF value THEN 1 ELSE 0)
    /\ UNCHANGED <<clockVars, streakData, libVars, reviewModeEnabled, useCollectionsView,
                   title, theme, hideCompleted, customArtwork, completionSound,
                   appVars, ghostVars, playerVars>>

\* ------------------------------------------------------------ Player
PlayheadVals == {30, 99}

PlayerMounted == HasId(podcasts, currentPodcastId)

\* onLoadedData of a freshly mounted audio element (the lessons of this
\* model are uploaded with their duration known)
LoadedData ==
    /\ PlayerMounted
    /\ audioTime = 0 /\ ~debounce.pending
    /\ audioTime' = Find(podcasts, currentPodcastId).progress
    /\ activePlayerTime' = Find(podcasts, currentPodcastId).progress
    /\ podcasts' = updatePodcastDuration(podcasts, currentPodcastId, 100)
    /\ lastOp' = Op("loadedData", currentPodcastId, 0)
    /\ UNCHANGED <<clockVars, streakData, collections, settingsVars, currentPodcastId,
                   isPlaying, isPlayerExpanded, reviewVars, uiVars, ghostVars,
                   debounce, orphans>>

\* handleTimeUpdate: the playhead has moved on to t; the pending timer of
\* this Player is cleared and a new one is set
TimeUpdate(t) ==
    /\ PlayerMounted /\ isPlaying
    /\ t > audioTime
    /\ audioTime' = t
    /\ activePlayerTime' = t
    /\ debounce' = [pending |-> TRUE, at |-> t, closure |-> timerClosure]
    /\ lastOp' = Op("timeUpdate", currentPodcastId, t)
    /\ UNCHANGED <<clockVars, streakData, libVars, settingsVars, currentPodcastId,
                   isPlaying, isPlayerExpanded, reviewVars, uiVars, ghostVars, orphans>>

\* positions on the progress bar of a lesson of duration 100
SeekVals == {50, 98, 99}

\* handleSeek that leaves the save to the debounce timer
Seek_Debounced(newTime) ==
    /\ PlayerMounted
    /\ audioTime' = newTime
    /\ activePlayerTime' = newTime
    /\ debounce' = [pending |-> TRUE, at |-> newTime, closure |-> timerClosure]
    /\ lastOp' = Op("seek", currentPodcastId, newTime)
    /\ UNCHANGED <<clockVars, streakData, libVars, settingsVars, currentPodcastId,
                   isPlaying, isPlayerExpanded, reviewVars, uiVars, ghostVars, orphans>>

\* handleSeek: a click on the progress bar at newTime
Seek(newTime) ==
    /\ PlayerMounted
    /\ audioTime' = newTime
    /\ activePlayerTime' = newTime
    /\ progressSave(currentPodcastId, newTime)
    /\ lastOp' = [Op("seek", currentPodcastId, newTime) EXCEPT
                     !.calls = recordCompletionCalls(streakData, podcasts,
                                                     currentPodcastId, newTime)]
    /\ UNCHANGED <<clockVars, collections, settingsVars, currentPodcastId, isPlaying,
                   isPlayerExpanded, reviewVars, uiVars, cleanToday, debounce, orphans>>

\* audioRef.current?.currentTime || 0 in a timer whose Player has unmounted
orphanReads(at) == 0

\* the 500 ms timer of the mounted Player fires, with the onProgressSave
\* of the render that set it
FlushDebounce ==
    /\ PlayerMounted /\ debounce.pending
    /\ progressSaveFrom(debounce.closure, currentPodcastId, audioTime)
    /\ debounce' = NoTimer
    /\ lastOp' = [Op("flushDebounce", currentPodcastId, debounce.at) EXCEPT
                     !.calls = recordCompletionCalls(debounce.closure, podcasts,
                                                     currentPodcastId, audioTime)]
    /\ UNCHANGED <<clockVars, collections, settingsVars, appVars, cleanToday,
                   audioTime, orphans>>

\* the 500 ms timer of a Player that has unmounted fires; when the write
\* changes the progress of the lesson now playing, the sync effect moves
\* the audio element there
FlushOrphan(o) ==
    /\ o \in orphans
    /\ progressSaveFrom(o.closure, o.id, orphanReads(o.at))
    /\ orphans' = orphans \ {o}
    /\ audioTime' = IF o.id = currentPodcastId /\ PlayerMounted
                       /\ Find(podcasts, o.id).progress # orphanReads(o.at)
                    THEN orphanReads(o.at) ELSE audioTime
    /\ lastOp' = [Op("flushOrphan", o.id, o.at) EXCEPT
                     !.calls = recordCompletionCalls(o.closure, podcasts, o.id,
                                                     orphanReads(o.at))]
    /\ UNCHANGED <<clockVars, collections, settingsVars, appVars, cleanToday, debounce>>

\* handleDeletePodcast that empties the library
deletePodcastPodcasts_RemovesAll(prev, id) == <<>>

deletePodcastPodcasts(prev, id) == FilterOutId(prev, id)

\* handleDeletePodcast: what became of the stored audio file.  0: no
\* deletion requested, 1: deleted, 2: deletePodcastFromDB rejected (caught
\* and logged)
deletePodcastFromDB(podcastToDelete, rejects) ==
    IF podcastToDelete.storage = "indexeddb"
    THEN IF rejects THEN 2 ELSE 1
    ELSE 0

\* handleDeletePodcast
DeletePodcast(id) ==
    /\ ~reviewPrompt.show
    /\ HasId(podcasts, id)
    /\ podcasts' = deletePodcastPodcasts(podcasts, id)
    /\ streakData' = IF streakData.enabled /\ streakData.difficulty # "easy"
                     THEN unrecordCompletion(streakData, streakData, id, todayStr)
                     ELSE streakData
    /\ cleanToday' = IF streakData.enabled /\ streakData.difficulty # "easy"
                     THEN FALSE ELSE cleanToday
    /\ IF currentPodcastId = id
       THEN /\ currentPodcastId' = NULL
            /\ isPlaying' = FALSE
            /\ switchPlayer(NULL)
       ELSE UNCHANGED <<currentPodcastId, isPlaying, playerVars>>
    /\ \E rejects \in BOOLEAN :
          lastOp' = Op("deletePodcast", id, deletePodcastFromDB(Find(podcasts, id), rejects))
    /\ UNCHANGED <<clockVars, collections, settingsVars, isPlayerExpanded,
                   activePlayerTime, reviewVars, uiVars, calledToday>>

\* ------------------------------------- App: toggle, reset, delete all
\* handleToggleComplete that marks complete without moving the progress
toggleCompletePodcasts_KeepsProgress(prev, id) ==
    LET f(p) == IF p.id = id THEN [p EXCEPT !.isListened = ~p.isListened] ELSE p
    IN MapSeq(prev, f)

\* handleToggleComplete: the setPodcasts updater
toggleCompletePodcasts(prev, id) ==
    LET f(p) == IF p.id = id
                THEN [p EXCEPT !.isListened = ~p.isListened,
                               !.progress = IF ~p.isListened THEN p.duration ELSE 0]
                ELSE p
    IN MapSeq(prev, f)

\* handleToggleComplete.  wasMarkedComplete is assigned inside the updater:
\* it is set before the streak branch reads it only when React runs the
\* updater eagerly, which depends on the update queue of the component.
ToggleComplete(id, eager) ==
    /\ ~reviewPrompt.show
    /\ HasId(podcasts, id)
    /\ podcasts' = toggleCompletePodcasts(podcasts, id)
    /\ LET wasMarkedComplete == ~Find(podcasts, id).isListened
           streak == eager /\ streakData.enabled /\ streakData.difficulty # "easy"
       IN /\ streakData' =
                IF ~streak THEN streakData
                ELSE IF wasMarkedComplete
                     THEN recordCompletion(streakData, streakData, id, todayStr, now)
                     ELSE unrecordCompletion(streakData, streakData, id, todayStr)
          /\ calledToday' = IF streak /\ wasMarkedComplete THEN calledToday \cup {id}
                            ELSE calledToday
          /\ cleanToday' = IF streak /\ ~wasMarkedComplete THEN FALSE ELSE cleanToday
    /\ lastOp' = [Op("toggleComplete", id, IF eager THEN 1 ELSE 0) EXCEPT
                     !.calls = IF eager /\ streakData.enabled
                                  /\ streakData.difficulty # "easy"
                                  /\ ~Find(podcasts, id).isListened
                               THEN 1 ELSE 0]
    /\ UNCHANGED <<clockVars, collections, settingsVars, appVars, playerVars>>

\* handleResetProgress that also clears the streak
resetProgressStreak_ClearsStreak(prev) ==
    [prev EXCEPT !.completedToday = <<>>, !.currentStreak = 0, !.lastListenDate = NoDate,
                 !.history = <<>>]

\* handleResetProgress: the setStreakData updater
resetProgressStreak(prev) == [prev EXCEPT !.completedToday = <<>>]

resetProgressPodcasts(prev) ==
    LET f(p) == [p EXCEPT !.progress = 0, !.isListened = FALSE]
    IN MapSeq(prev, f)

ResetProgress ==
    /\ ~reviewPrompt.show
    /\ isPlaying' = FALSE
    /\ podcasts' = resetProgressPodcasts(podcasts)
    /\ streakData' = resetProgressStreak(streakData)
    /\ cleanToday' = FALSE
    /\ lastOp' = Op("resetProgress", NULL, 0)
    /\ UNCHANGED <<clockVars, collections, settingsVars, currentPodcastId, isPlayerExpanded,
                   activePlayerTime, reviewVars, uiVars, calledToday, playerVars>>

\* handleDeleteAll
DeleteAll ==
    /\ ~reviewPrompt.show
    /\ podcasts' = <<>>
    /\ collections' = <<>>
    /\ currentPodcastId' = NULL
    /\ isPlaying' = FALSE
    /\ isPlayerExpanded' = FALSE
    /\ switchPlayer(NULL)
    /\ streakData' = [streakData EXCEPT !.completedToday = <<>>]
    /\ cleanToday' = FALSE
    /\ lastOp' = Op("deleteAll", NULL, 0)
    /\ UNCHANGED <<clockVars, settingsVars, activePlayerTime, reviewVars, uiVars,
                   calledToday>>

\* ---------------------------------------------- specification: library
UploadBatches ==
    {<<newPodcast(id, 100)>> : id \in LibIds}
        \cup {<<newPodcast(a, 100), newPodcast(b, 100)>> : a \in LibIds, b \in LibIds}

LibraryDocs ==
    {d \in ImportDocs : /\ d.kind = "ok"
                        /\ ~d.collections.present
                        /\ Len(d.podcasts) = 2
                        /\ d.podcasts[1].id = "p1"
                        /\ d.podcasts[2].has # {}}

NextLibrary ==
    \/ \E batch \in UploadBatches : FileUpload(batch)
    \/ \E c \in {NULL, "default-collection"} : AssignToCollection(c)
    \/ \E doc \in LibraryDocs : ImportData(doc)
    \/ \E id \in LibIds, c \in {NULL, "default-collection"} : MovePodcastToCollection(id, c)
    \/ \E id \in LibIds, eager \in BOOLEAN : ToggleComplete(id, eager)
    \/ \E id \in LibIds : DeletePodcast(id)
    \/ ResetProgress
    \/ DeleteAll

SpecLibrary == InitFirstRun /\ [][NextLibrary]_vars

\* ----------------------------------------------- specification: Player
NextPlayer ==
    \/ \E id \in LibIds :
         /\ ~HasId(podcasts, id)
         /\ FileUpload(<<newPodcast(id, 100)>>)
    \/ AssignToCollection(NULL)
    \/ \E id \in LibIds : SelectPodcast(id)
    \/ LoadedData
    \/ \E t \in PlayheadVals : TimeUpdate(t)
    \/ FlushDebounce
    \/ \E o \in orphans : FlushOrphan(o)
    \/ \E id \in LibIds : DeletePodcast(id)
    \/ Remount

SpecPlayer == InitFirstRun /\ [][NextPlayer]_vars

\* --------------------------------------------- specification: playback
\* the audio element fires ended when the playhead is at the end of the
\* lesson; the last timeupdate was less than 500 ms before
Ended ==
    /\ isPlaying /\ PlayerMounted
    /\ audioTime >= Find(podcasts, currentPodcastId).duration - 1
    /\ PlaybackEnd

NextPlayback ==
    \/ \E id \in LibIds :
         /\ ~HasId(podcasts, id)
         /\ FileUpload(<<newPodcast(id, 100)>>)
    \/ AssignToCollection(NULL)
    \/ \E id \in LibIds : SelectPodcast(id)
    \/ LoadedData
    \/ \E t \in PlayheadVals : TimeUpdate(t)
    \/ FlushDebounce
    \/ \E o \in orphans : FlushOrphan(o)
    \/ Ended

SpecPlayback == InitFirstRun /\ [][NextPlayback]_vars

\* a timer that was set fires after 500 ms
FairPlayback ==
    /\ SpecPlayback
    /\ WF_vars(FlushDebounce)
    /\ WF_vars(\E o \in orphans : FlushOrphan(o))

\* ------------------------------------------ specification: completions
\* every handler that sets or clears the completion of a lesson, with the
\* streak switch and the difficulty buttons
NextCompletions ==
    \/ \E id \in LibIds :
         /\ ~HasId(podcasts, id)
         /\ FileUpload(<<newPodcast(id, 100)>>)
    \/ AssignToCollection(NULL)
    \/ \E id \in LibIds : UpdatePodcastProgress(id, 99)
    \/ \E id \in LibIds, eager \in BOOLEAN : ToggleComplete(id, eager)
    \/ \E id \in LibIds : DeletePodcast(id)
    \/ ResetProgress
    \/ StreakToggle
    \/ \E d \in {"easy", "normal"} : DifficultyChange(d)
    \/ ReviewModeToggle
    \/ \E id \in LibIds : SelectPodcast(id)
    \/ ConfirmReview
    \/ CancelReview

SpecCompletions == InitFirstRun /\ [][NextCompletions]_vars

\* ------------------------------------- specification: review and delete
NextDelete ==
    \/ \E id \in LibIds :
         /\ ~HasId(podcasts, id)
         /\ FileUpload(<<newPodcast(id, 100)>>)
    \/ AssignToCollection(NULL)
    \/ \E id \in LibIds : UpdatePodcastProgress(id, 99)
    \/ ReviewModeToggle
    \/ \E id \in LibIds : SelectPodcast(id)
    \/ ConfirmReview
    \/ CancelReview
    \/ PlaybackEnd
    \/ \E id \in LibIds : DeletePodcast(id)
    \/ DeleteAll

SpecDelete == InitFirstRun /\ [][NextDelete]_vars

\* ------------------------------------------------ specification: resume
NextResume ==
    \/ \E id \in LibIds :
         /\ ~HasId(podcasts, id)
         /\ FileUpload(<<newPodcast(id, 100)>>)
    \/ AssignToCollection(NULL)
    \/ \E id \in LibIds, p \in {50, 99} : UpdatePodcastProgress(id, p)
    \/ ReviewModeToggle
    \/ \E id \in LibIds : SelectPodcast(id)
    \/ ConfirmReview
    \/ CancelReview
    \/ PlaybackEnd
    \/ PlayCollection(NULL)
    \/ LoadedData

SpecResume == InitFirstRun /\ [][NextResume]_vars

\* -------------------------------------------------- specification: seek
NextSeek ==
    \/ \E id \in LibIds :
         /\ ~HasId(podcasts, id)
         /\ FileUpload(<<newPodcast(id, 100)>>)
    \/ AssignToCollection(NULL)
    \/ \E id \in LibIds : SelectPodcast(id)
    \/ LoadedData
    \/ TimeUpdate(30)
    \/ FlushDebounce
    \/ \E o \in orphans : FlushOrphan(o)
    \/ \E t \in SeekVals : Seek(t)
    \/ DifficultyChange("easy")

SpecSeek == InitFirstRun /\ [][NextSeek]_vars

\* ------------------------------------------- specification: mode gating
\* the engine operations and the progress update under both kinds of
\* difficulty, over several dates
NextGating ==
    \/ AdvanceDay
    \/ Remount
    \/ RecordActivity
    \/ RecordCompletion("p1")
    \/ UnrecordCompletion("p1")
    \/ StreakToggle
    \/ \E d \in {"easy", "normal"} : DifficultyChange(d)
    \/ /\ ~HasId(podcasts, "p1")
       /\ FileUpload(<<newPodcast("p1", 100)>>)
    \/ AssignToCollection(NULL)
    \/ UpdatePodcastProgress("p1", 50)

SpecGating == InitFirstRun /\ [][NextGating]_vars

\* ------------------------------------- specification: goal and settings
\* completions by playback on one date, with the streak panel
NextGoal ==
    \/ \E id \in LibIds :
         /\ ~HasId(podcasts, id)
         /\ FileUpload(<<newPodcast(id, 100)>>)
    \/ AssignToCollection(NULL)
    \/ \E id \in LibIds, p \in {50, 99} : UpdatePodcastProgress(id, p)
    \/ StreakToggle
    \/ \E d \in Difficulties : DifficultyChange(d)

SpecGoal == InitFirstRun /\ [][NextGoal]_vars

\* ----------------------------------------------- specification: history
\* a stored history of 365 dates that ends yesterday, in ascending order,
\* and the same dates with the latest one stored first (as a backup file
\* written after a clock change holds them)
AscendingYear == [i \in 1..HistoryKeep |-> i - HistoryKeep]
RotatedYear == <<0>> \o [i \in 1..(HistoryKeep - 1) |-> i - HistoryKeep]

HistoryDocs ==
    {[NoDoc EXCEPT !.streakData =
         [present |-> TRUE,
          value |-> [INITIAL_STREAK_DATA EXCEPT !.history = h,
                                                !.lastListenDate = IF h = <<>> THEN NoDate ELSE 0,
                                                !.currentStreak = IF h = <<>> THEN 0 ELSE c,
                                                !.difficulty = d]]] :
        h \in {<<>>, <<0, 0>>, AscendingYear, RotatedYear},
        c \in {1, 2},
        d \in {"easy", "normal"}}

NextHistory ==
    \/ AdvanceDay
    \/ Remount
    \/ \E doc \in HistoryDocs : ImportData(doc)
    \/ RecordActivity
    \/ \E id \in LibIds : RecordCompletion(id)

SpecHistory == InitFirstRun /\ [][NextHistory]_vars

\* ------------------------------------- specification: progress range
\* backup files whose record of p1 holds a position inside the lesson,
\* beyond its end, or before its start
RangeDocs ==
    {[NoDoc EXCEPT !.podcasts = <<[id |-> "p1", has |-> {"progress", "isListened"},
                                   progress |-> n, isListened |-> l, collectionId |-> NULL]>>] :
        n \in {50, 500, -5}, l \in {FALSE}}

NextRange ==
    \/ \E id \in LibIds :
         /\ ~HasId(podcasts, id)
         /\ FileUpload(<<newPodcast(id, 100)>>)
    \/ AssignToCollection(NULL)
    \/ \E id \in LibIds : SelectPodcast(id)
    \/ LoadedData
    \/ TimeUpdate(30)
    \/ FlushDebounce
    \/ \E o \in orphans : FlushOrphan(o)
    \/ Seek(50)
    \/ \E id \in LibIds : ToggleComplete(id, TRUE)
    \/ \E doc \in RangeDocs : ImportData(doc)

SpecRange == InitFirstRun /\ [][NextRange]_vars

\* ----------------------------------- specification: stale lesson ids
\* the operations that take a lesson id, with lessons being deleted while
\* a timer of their Player is still pending
NextStale ==
    \/ \E id \in LibIds :
         /\ ~HasId(podcasts, id)
         /\ FileUpload(<<newPodcast(id, 100)>>)
    \/ AssignToCollection(NULL)
    \/ \E id \in LibIds : SelectPodcast(id)
    \/ TimeUpdate(30)
    \/ FlushDebounce
    \/ \E o \in orphans : FlushOrphan(o)
    \/ \E id \in LibIds : DeletePodcast(id)
    \/ \E id \in LibIds : UpdatePodcastDuration(id, 60)
    \/ \E id \in LibIds : MovePodcastToCollection(id, "default-collection")
    \/ DifficultyChange("easy")

SpecStale == InitFirstRun /\ [][NextStale]_vars

\* ---------------------------------------------- specification: settings
\* one field of the backup file: absent, or present with a value
Absent(v) == [present |-> FALSE, value |-> v]
Present(v) == [present |-> TRUE, value |-> v]

TitleVals == {"", "Kanji"}
ArtworkVals == {NULL, "data:image/png"}

\* backup files that hold no setting, every setting, or one setting
SettingsDocs ==
    {NoDoc,
     [NoDoc EXCEPT !.appTitle = Present("Kanji"), !.theme = Present("paper"),
                   !.hideCompleted = Present(TRUE),
                   !.customArtwork = Present("data:image/png"),
                   !.completionSound = Present("pokemon"),
                   !.playOnNavigate = Present(FALSE),
                   !.reviewModeEnabled = Present(TRUE),
                   !.useCollectionsView = Present(FALSE),
                   !.collections = Present(<<>>),
                   !.streakData = Present([INITIAL_STREAK_DATA EXCEPT !.enabled = FALSE])]}
    \cup {[NoDoc EXCEPT !.appTitle = Present(v)] : v \in TitleVals}
    \cup {[NoDoc EXCEPT !.hideCompleted = Present(v)] : v \in BOOLEAN}
    \cup {[NoDoc EXCEPT !.customArtwork = Present(v)] : v \in ArtworkVals}
    \cup {[NoDoc EXCEPT !.playOnNavigate = Present(v)] : v \in BOOLEAN}
    \cup {[NoDoc EXCEPT !.reviewModeEnabled = Present(v)] : v \in BOOLEAN}
    \cup {[NoDoc EXCEPT !.collections = Present(<<>>)]}

NextSettings ==
    \/ \E v \in TitleVals : SetTitle(v)
    \/ \E v \in {"charcoal", "paper"} : SetTheme(v)
    \/ \E v \in BOOLEAN : SetHideCompleted(v)
    \/ \E v \in ArtworkVals : SetCustomArtwork(v)
    \/ \E v \in {"none", "pokemon"} : SetCompletionSound(v)
    \/ \E v \in BOOLEAN : SetPlayOnNavigate(v)
    \/ ReviewModeToggle
    \/ \E doc \in SettingsDocs : ImportData(doc)

SpecSettings == InitFirstRun /\ [][NextSettings]_vars

\* -------------------------------------- specification: export and import
\* one lesson as JSON.stringify writes it and JSON.parse reads it back
exportPodcast_NoCollectionId(p) ==
    [id |-> p.id, has |-> {"progress", "isListened"}, progress |-> p.progress,
     isListened |-> p.isListened, collectionId |-> NULL]

exportPodcast(p) ==
    [id |-> p.id, has |-> {"progress", "isListened", "collectionId"},
     progress |-> p.progress, isListened |-> p.isListened, collectionId |-> p.collectionId]

\* handleExportData: the backup file of the present state
handleExportData ==
    [kind |-> "ok",
     podcasts |-> [i \in DOMAIN podcasts |-> exportPodcast(podcasts[i])],
     collections |-> Present(collections),
     appTitle |-> Present(title),
     theme |-> Present(theme),
     streakData |-> Present(streakData),
     hideCompleted |-> Present(hideCompleted),
     reviewModeEnabled |-> Present(reviewModeEnabled),
     customArtwork |-> Present(customArtwork),
     completionSound |-> Present(completionSound),
     useCollectionsView |-> Present(useCollectionsView),
     playOnNavigate |-> Present(playOnNavigate)]

\* the backup file just exported is imported
ExportThenImport == ImportData(handleExportData)

NextRoundTrip ==
    \/ \E id \in LibIds :
         /\ ~HasId(podcasts, id)
         /\ FileUpload(<<newPodcast(id, 100)>>)
    \/ \E c \in {NULL} \cup IdsOf(collections) : AssignToCollection(c)
    \/ CreateCollection("coll-1", "Folder")
    \/ \E id \in LibIds, p \in {50, 99} : UpdatePodcastProgress(id, p)
    \/ \E id \in LibIds : ToggleComplete(id, TRUE)
    \/ \E v \in TitleVals : SetTitle(v)
    \/ \E v \in ArtworkVals : SetCustomArtwork(v)
    \/ SetHideCompleted(TRUE)
    \/ ExportThenImport

SpecRoundTrip == InitFirstRun /\ [][NextRoundTrip]_vars

\* ------------------------------------- specification: streak switched off
\* playback, the completion toggle and deleting, with the streak being
\* switched on and off
NextSwitch ==
    \/ \E id \in LibIds :
         /\ ~HasId(podcasts, id)
         /\ FileUpload(<<newPodcast(id, 100)>>)
    \/ AssignToCollection(NULL)
    \/ StreakToggle
    \/ \E id \in LibIds : SelectPodcast(id)
    \/ TimeUpdate(99)
    \/ FlushDebounce
    \/ \E o \in orphans : FlushOrphan(o)
    \/ Seek(99)
    \/ Ended
    \/ DeletePodcast("p2")

SpecSwitch == InitFirstRun /\ [][NextSwitch]_vars

\* ------------------------------------------- specification: review flow
NextReview ==
    \/ \E id \in Ids :
         /\ ~HasId(podcasts, id)
         /\ FileUpload(<<newPodcast(id, 100)>>)
    \/ AssignToCollection(NULL)
    \/ \E id \in Ids : UpdatePodcastProgress(id, 99)
    \/ ReviewModeToggle
    \/ \E id \in Ids : SelectPodcast(id)
    \/ ConfirmReview
    \/ CancelReview
    \/ PlaybackEnd

SpecReview == InitFirstRun /\ [][NextReview]_vars

\* --------------------------------------- specification: display order
NextSort ==
    \/ \E id \in SortIds :
         /\ Len(podcasts) < MaxLib
         /\ ~HasId(podcasts, id)
         /\ FileUpload(<<newPodcast(id, 100)>>)
    \/ AssignToCollection(NULL)
    \/ \E id \in SortIds : SelectPodcast(id)

SpecSort == InitFirstRun /\ [][NextSort]_vars

\* ------------------------------- specification: progress and duration
NextProgress ==
    \/ \E id \in LibIds, d \in DurationVals : FileUpload(<<newPodcast(id, d)>>)
    \/ AssignToCollection(NULL)
    \/ \E id \in LibIds, p \in ProgressVals : UpdatePodcastProgress(id, p)
    \/ \E id \in LibIds, d \in DurationVals : UpdatePodcastDuration(id, d)

SpecProgress == InitFirstRun /\ [][NextProgress]_vars

\* ======================================================= claims C1 .. C4
EngineOps == {"recordActivity", "recordCompletion", "unrecordCompletion",
              "difficultyChange"}

Goal(d) == CASE d = "normal" -> 1 [] d = "hard" -> 2 [] d = "extreme" -> 3 [] OTHER -> 1

\* C1: with the streak enabled and a difficulty other than easy, on a date
\* that started with no recorded completions and saw no unrecordCompletion,
\* isTodayComplete is true exactly when the number k of distinct ids passed
\* to recordCompletion on that date is at least goal(difficulty).
C1_GoalReachedIffKDistinct ==
    (streakData.enabled /\ streakData.difficulty # "easy" /\ cleanToday)
        => (isTodayComplete(streakData, todayStr)
                <=> Cardinality(calledToday) >= Goal(streakData.difficulty))

\* C2: awarding is idempotent per calendar date: once lastAwardedDate is
\* today, no engine call or difficulty change on that date changes
\* currentStreak, lastAwardedDate or history, and a call that changes
\* currentStreak leaves lastAwardedDate at today (so it happens at most once).
C2_AwardOncePerDate ==
    [][(lastOp'.op \in EngineOps /\ now' = now)
         => /\ (streakData.lastListenDate = now
                  => /\ streakData'.currentStreak = streakData.currentStreak
                     /\ streakData'.lastListenDate = streakData.lastListenDate
                     /\ streakData'.history = streakData.history)
            /\ (streakData'.currentStreak # streakData.currentStreak
                  => streakData'.lastListenDate = now)]_vars

C2_Witness ==
    /\ lastOp.op = "recordCompletion"
    /\ streakData.lastListenDate = now
    /\ streakData.difficulty = "normal"
    /\ Len(getTodaysCompletions(streakData, todayStr)) = 3
    /\ streakData.currentStreak = 1

\* C3: when an award is granted on date T, currentStreak becomes the previous
\* value plus one if lastAwardedDate was T-1 and 1 otherwise, and
\* lastAwardedDate becomes T.
C3_ConsecutiveDayRule ==
    [][(lastOp'.op \in EngineOps
          /\ streakData'.lastListenDate # streakData.lastListenDate)
         => /\ streakData'.lastListenDate = now
            /\ streakData'.currentStreak =
                 (IF streakData.lastListenDate = now - 1
                  THEN streakData.currentStreak + 1 ELSE 1)
            /\ streakData'.currentStreak >= 1]_vars

\* awards on days 1 and 2 (streak 2), none on day 3, an award on day 4
C3_Witness ==
    /\ lastOp.op \in {"recordActivity", "recordCompletion"}
    /\ streakData.history = <<1, 2, 4>>
    /\ streakData.lastListenDate = 4
    /\ streakData.currentStreak = 1

\* C4: unrecordCompletion(id) never changes currentStreak, lastAwardedDate or
\* history; for a difficulty other than easy the id is no longer among
\* today's completions afterwards, and when it removed an id so that their
\* number is below goal(difficulty), isTodayComplete is false, also when
\* today's award was already granted.
C4_UnrecordKeepsAward ==
    [][lastOp'.op = "unrecordCompletion"
         => /\ streakData'.currentStreak = streakData.currentStreak
            /\ streakData'.lastListenDate = streakData.lastListenDate
            /\ streakData'.history = streakData.history
            /\ (streakData.difficulty # "easy"
                  => /\ ~Contains(getTodaysCompletions(streakData', todayStr), lastOp'.id)
                     /\ (Contains(getTodaysCompletions(streakData, todayStr), lastOp'.id)
                           => Len(getTodaysCompletions(streakData', todayStr))
                                = Len(getTodaysCompletions(streakData, todayStr)) - 1)
                     /\ (Len(getTodaysCompletions(streakData', todayStr))
                           < Goal(streakData.difficulty)
                           => ~isTodayComplete(streakData', todayStr)))]_vars

\* the award of today was granted, then a completion was removed
C4_Witness ==
    /\ lastOp.op = "unrecordCompletion"
    /\ streakData.enabled
    /\ streakData.difficulty = "hard"
    /\ streakData.lastListenDate = now
    /\ todayStr = now
    /\ streakData.currentStreak = 2
    /\ Len(getTodaysCompletions(streakData, todayStr)) = 1
    /\ ~Contains(streakData.completedToday, lastOp.id)
    /\ lastOp.id \in calledToday
    /\ ~isTodayComplete(streakData, todayStr)

\* ======================================================= claims C5 .. C8
\* C5: updateProgress(id, p) sets progress to p and isCompleted to
\* (old isCompleted or (duration > 0 and p >= duration - 1)) for the lesson
\* id and changes no other lesson; with duration 100, p = 98 does not
\* complete and p = 99 does; a duration of 0 never completes; isCompleted
\* never goes from true to false.
C5_ProgressCompletion ==
    [][lastOp'.op = "updatePodcastProgress"
         => /\ Len(podcasts') = Len(podcasts)
            /\ \A i \in DOMAIN podcasts :
                 LET old == podcasts[i]
                     new == podcasts'[i]
                     p == lastOp'.n
                 IN IF old.id # lastOp'.id THEN new = old
                    ELSE /\ new = [old EXCEPT !.progress = p, !.isListened = new.isListened]
                         /\ new.isListened
                              = (old.isListened \/ (old.duration > 0 /\ p >= old.duration - 1))
                         /\ (old.isListened => new.isListened)
                         /\ (old.duration = 100 /\ ~old.isListened /\ p = 98 => ~new.isListened)
                         /\ (old.duration = 100 /\ p = 99 => new.isListened)
                         /\ (old.duration = 0 /\ ~old.isListened => ~new.isListened)]_vars

\* a completed lesson of duration 100 was moved back to 50 and stays completed
C5_Witness ==
    /\ lastOp.op = "updatePodcastProgress"
    /\ lastOp.n = 50
    /\ HasId(podcasts, lastOp.id)
    /\ Find(podcasts, lastOp.id).duration = 100
    /\ Find(podcasts, lastOp.id).progress = 50
    /\ Find(podcasts, lastOp.id).isListened
    /\ Contains(streakData.completedToday, lastOp.id)

\* C6: updateDuration(id, d) changes the duration of lesson id only when the
\* stored duration is 0; a stored non-zero duration stays, and no other
\* field of any lesson changes.
C6_DurationFirstWriteWins ==
    [][lastOp'.op = "updatePodcastDuration"
         => /\ Len(podcasts') = Len(podcasts)
            /\ \A i \in DOMAIN podcasts :
                 LET old == podcasts[i]
                     new == podcasts'[i]
                 IN IF old.id = lastOp'.id /\ old.duration = 0
                    THEN new = [old EXCEPT !.duration = lastOp'.n]
                    ELSE new = old]_vars

\* a second updateDuration with another value left the stored 100 in place
C6_Witness ==
    /\ lastOp.op = "updatePodcastDuration"
    /\ lastOp.n = 60
    /\ HasId(podcasts, lastOp.id)
    /\ Find(podcasts, lastOp.id).duration = 100
\* C7: deleting collection c sets collectionId to null for every lesson of
\* c, removes c from the collection list, keeps the lessons and their order,
\* and changes nothing else of any lesson or of any other collection.
C7_DeleteCollectionReassigns ==
    [][lastOp'.op = "deleteCollection"
         => /\ Len(podcasts') = Len(podcasts)
            /\ \A i \in DOMAIN podcasts :
                 podcasts'[i] = (IF podcasts[i].collectionId = lastOp'.id
                                 THEN [podcasts[i] EXCEPT !.collectionId = NULL]
                                 ELSE podcasts[i])
            /\ ~HasId(collections', lastOp'.id)
            /\ Range(collections') = {c \in Range(collections) : c.id # lastOp'.id}
            /\ \A i \in DOMAIN podcasts' : podcasts'[i].collectionId # lastOp'.id]_vars

\* a collection with a member and a lesson of another collection: the
\* member is now uncategorized, the other lesson keeps its collection
C7_Witness ==
    /\ lastOp.op = "deleteCollection"
    /\ lastOp.id = "coll-1"
    /\ ~HasId(collections, "coll-1")
    /\ Len(podcasts) = 2
    /\ podcasts[1].collectionId = NULL /\ podcasts[1].isListened
    /\ podcasts[2].collectionId = "default-collection"

\* the last record of the imported array with the id (the Map keeps it)
ImportedRecord(list, id) ==
    list[CHOOSE j \in DOMAIN list :
            list[j].id = id /\ \A k \in DOMAIN list : k > j => list[k].id # id]

\* C8: an import keeps the lessons of the library and their order; a live
\* lesson whose id is in the document takes progress, isCompleted and
\* collectionId from the imported record (a missing subfield gives 0, false,
\* null) and keeps every other field; any other live lesson is unchanged.
C8_ImportMerge ==
    [][lastOp'.op = "importData"
         => LET list == lastOp'.doc.podcasts
            IN /\ Len(podcasts') = Len(podcasts)
               /\ \A i \in DOMAIN podcasts :
                    LET old == podcasts[i]
                        new == podcasts'[i]
                    IN IF \E j \in DOMAIN list : list[j].id = old.id
                       THEN LET r == ImportedRecord(list, old.id)
                            IN new = [old EXCEPT
                                 !.progress = IF "progress" \in r.has THEN r.progress ELSE 0,
                                 !.isListened = IF "isListened" \in r.has
                                                THEN r.isListened ELSE FALSE,
                                 !.collectionId = IF "collectionId" \in r.has
                                                  THEN r.collectionId ELSE NULL]
                       ELSE new = old]_vars

\* p1 took the imported values, p2 (not in the document) kept its own, and
\* the imported p3 was not added
C8_Witness ==
    /\ lastOp.op = "importData"
    /\ Len(lastOp.doc.podcasts) = 2
    /\ lastOp.doc.podcasts[1].id = "p3"
    /\ lastOp.doc.podcasts[2].id = "p1" /\ lastOp.doc.podcasts[2].has # {}
    /\ IdsOf(podcasts) = {"p1", "p2"}
    /\ Find(podcasts, "p1").progress = 50
    /\ Find(podcasts, "p1").isListened
    /\ Find(podcasts, "p1").collectionId = "coll-1"
    /\ Find(podcasts, "p1").duration = 100
    /\ Find(podcasts, "p2").progress = 99
    /\ Find(podcasts, "p2").isListened
    /\ Find(podcasts, "p2").collectionId = "default-collection"

\* ---------------------------------------------------------------- C9
\* C9: review flow end to end.  With review mode on, selecting a lesson L2
\* that is not the active one and whose predecessor L1 in the display order
\* is completed opens the prompt with reviewLesson = L1 and targetLesson = L2
\* and starts nothing; confirming sets L1 to progress 0 and not completed,
\* makes L1 the active playing lesson and queues L2; when L1 then ends, L2
\* becomes the active playing lesson and the queue is empty.
C9_ReviewFlow ==
    [][/\ (/\ lastOp'.op = "selectPodcast"
           /\ reviewModeEnabled
           /\ lastOp'.id # currentPodcastId
           /\ HasId(podcasts, lastOp'.id)
           /\ LET sorted == allPodcastsSorted(podcasts)
                  i == FindIndex(sorted, lastOp'.id)
              IN i > 1 /\ sorted[i - 1].isListened)
          => /\ reviewPrompt' =
                  [show |-> TRUE,
                   podcastToReview |->
                       LET sorted == allPodcastsSorted(podcasts)
                       IN sorted[FindIndex(sorted, lastOp'.id) - 1].id,
                   podcastToPlay |-> lastOp'.id]
             /\ UNCHANGED <<playVars, podcasts, nextPodcastOnEnd>>
       /\ lastOp'.op = "confirmReview"
          => /\ Find(podcasts', reviewPrompt.podcastToReview).progress = 0
             /\ ~Find(podcasts', reviewPrompt.podcastToReview).isListened
             /\ currentPodcastId' = reviewPrompt.podcastToReview
             /\ isPlaying'
             /\ nextPodcastOnEnd' = reviewPrompt.podcastToPlay
             /\ ~reviewPrompt'.show
       /\ (/\ lastOp'.op = "playbackEnd"
           /\ nextPodcastOnEnd # NULL
           /\ queuedBy = currentPodcastId)
          => /\ currentPodcastId' = nextPodcastOnEnd
             /\ isPlaying'
             /\ nextPodcastOnEnd' = NULL]_vars

\* the reviewed lesson p2 has ended and the queued target p3 took over
C9_Witness ==
    /\ lastOp.op = "playbackEnd" /\ lastOp.id = "p2" /\ lastOp.n = 1
    /\ reviewModeEnabled
    /\ currentPodcastId = "p3" /\ isPlaying
    /\ nextPodcastOnEnd = NULL

\* --------------------------------------------------------------- C10
Names(list) == [i \in DOMAIN list |-> list[i].name]

IsWholeInteger(s) == s # <<>> /\ DigitRun(s) = Len(s)

IsLettersOnly(s) == s # <<>> /\ \A i \in DOMAIN s : IsLetter(s[i])

\* the length of the run of letters at the head of s
RECURSIVE LetterRun(_)
LetterRun(s) ==
    IF s = <<>> \/ ~IsLetter(Head(s)) THEN 0 ELSE 1 + LetterRun(Tail(s))

\* code unit order of the lower-cased character: digits, then letters
LowerCode(c) == IF IsDigit(c) THEN DigitVal(c) ELSE 10 + LetterRank(c)

\* case-insensitive lexical comparison, character by character
RECURSIVE LexLeq(_, _)
LexLeq(a, b) ==
    IF a = <<>> THEN TRUE
    ELSE IF b = <<>> THEN FALSE
    ELSE IF LowerCode(Head(a)) # LowerCode(Head(b))
         THEN LowerCode(Head(a)) < LowerCode(Head(b))
         ELSE LexLeq(Tail(a), Tail(b))

\* letters followed by one whole integer, as in "a10"
IsLettersThenInteger(s) ==
    /\ LetterRun(s) > 0
    /\ LetterRun(s) < Len(s)
    /\ IsWholeInteger(SubSeq(s, LetterRun(s) + 1, Len(s)))

LetterPart(s) == SubSeq(s, 1, LetterRun(s))
IntegerPart(s) == NumVal(SubSeq(s, LetterRun(s) + 1, Len(s)), 0)

C11_LogicalExpiry ==
    [][/\ (streakData'.difficulty # "easy" /\ streakData'.completionDate # now')
          => ~isTodayComplete(streakData', todayStr')
       /\ (/\ lastOp'.op = "recordCompletion"
           /\ streakData.difficulty # "easy"
           /\ streakData.completionDate # now)
          => /\ streakData'.completionDate = now
             /\ streakData'.completedToday = <<lastOp'.id>>]_vars

\* --------------------------------------------------------------- C12
\* C12: no progress is lost to the debounce.  When a pending timer fires,
\* also after its lesson was switched away from, the lesson's stored
\* progress is the playhead the timer was set at, never another value such
\* as 0; and when the page is torn down with a timer pending, the stored
\* progress of the active lesson is already that playhead.
C12_NoProgressLost ==
    [][/\ (lastOp'.op \in {"flushDebounce", "flushOrphan"} /\ HasId(podcasts', lastOp'.id))
          => Find(podcasts', lastOp'.id).progress = lastOp'.n
       /\ (lastOp'.op = "remount" /\ debounce.pending /\ PlayerMounted)
          => Find(podcasts', currentPodcastId).progress = debounce.at]_vars

\* --------------------------------------------------------------- C13
\* C13: an import whose text does not parse, or whose podcasts field is
\* missing or is not an array, ends in an error alert and changes no
\* lesson, collection, streak field or setting.
C13_ImportFailureNoEffect ==
    [][(lastOp'.op = "importData" /\ lastOp'.doc.kind # "ok")
         => /\ lastOp'.n = 1
            /\ UNCHANGED <<podcasts, collections, streakData, settingsVars>>]_vars

\* a document with settings and a podcasts field that is not an array was
\* refused while the library held a lesson
C13_Witness ==
    /\ lastOp.op = "importData"
    /\ lastOp.doc.kind = "podcastsNotArray"
    /\ lastOp.doc.collections.present /\ lastOp.doc.reviewModeEnabled.present
    /\ lastOp.n = 1
    /\ podcasts # <<>>
    /\ collections = DEFAULT_COLLECTIONS
    /\ ~reviewModeEnabled

\* --------------------------------------------------------------- C14
\* C14: adding lessons keeps the existing entry on an id collision: after
\* an upload has been added, every lesson that was in the library is there
\* unchanged (progress, isListened, collectionId, duration) at its place,
\* and only lessons with new ids are appended.
C14_AddKeepsExisting ==
    [][lastOp'.op \in {"fileUpload", "assignToCollection"}
         => /\ Len(podcasts') >= Len(podcasts)
            /\ \A i \in DOMAIN podcasts : podcasts'[i] = podcasts[i]
            /\ \A i \in DOMAIN podcasts' :
                 i > Len(podcasts) => ~HasId(podcasts, podcasts'[i].id)]_vars

\* --------------------------------------------------------------- C15
\* C15: lesson ids are unique within the library in every reachable state,
\* whatever uploads (the same file twice, or twice in one batch), imports,
\* moves, toggles and deletes have happened.
C15_IdsUnique ==
    \A i, j \in DOMAIN podcasts : podcasts[i].id = podcasts[j].id => i = j

\* a batch holding the same file twice was added to a library that already
\* had that lesson
C15_Witness ==
    /\ lastOp.op = "assignToCollection" /\ lastOp.n = 2
    /\ Len(podcasts) = 1
    /\ Find(podcasts, "p1").collectionId = "default-collection"

\* --------------------------------------------------------------- C16
\* C16: toggling completion flips isListened of exactly that lesson, sets
\* its progress to its duration when flipping to true and to 0 when flipping
\* to false, and leaves every other lesson as it was; so two toggles of a
\* lesson that was not completed with progress 0 restore both fields.
C16_ToggleCompletion ==
    [][lastOp'.op = "toggleComplete"
         => /\ Len(podcasts') = Len(podcasts)
            /\ \A i \in DOMAIN podcasts :
                 IF podcasts[i].id = lastOp'.id
                 THEN podcasts'[i] =
                        [podcasts[i] EXCEPT
                           !.isListened = ~podcasts[i].isListened,
                           !.progress = IF podcasts[i].isListened THEN 0
                                        ELSE podcasts[i].duration]
                 ELSE podcasts'[i] = podcasts[i]]_vars

\* p1 was toggled to completed and back
C16_Witness ==
    /\ lastOp.op = "toggleComplete" /\ lastOp.id = "p1"
    /\ HasId(podcasts, "p1")
    /\ ~Find(podcasts, "p1").isListened
    /\ Find(podcasts, "p1").progress = 0
    /\ HasId(podcasts, "p2") /\ Find(podcasts, "p2").isListened
    /\ Find(podcasts, "p2").progress = 100

\* --------------------------------------------------------------- C17
\* C17: reset progress sets every lesson to progress 0 and not completed and
\* empties completedToday; currentStreak, lastListenDate, history, enabled
\* and difficulty are unchanged and no lesson or collection is removed.
C17_ResetProgress ==
    [][lastOp'.op = "resetProgress"
         => /\ Len(podcasts') = Len(podcasts)
            /\ \A i \in DOMAIN podcasts :
                 podcasts'[i] = [podcasts[i] EXCEPT !.progress = 0, !.isListened = FALSE]
            /\ streakData'.completedToday = <<>>
            /\ streakData'.currentStreak = streakData.currentStreak
            /\ streakData'.lastListenDate = streakData.lastListenDate
            /\ streakData'.history = streakData.history
            /\ streakData'.enabled = streakData.enabled
            /\ streakData'.difficulty = streakData.difficulty
            /\ collections' = collections]_vars

\* a reset after a completion that had been awarded
C17_Witness ==
    /\ lastOp.op = "resetProgress"
    /\ podcasts # <<>>
    /\ streakData.currentStreak = 1
    /\ streakData.lastListenDate = now
    /\ streakData.completedToday = <<>>
    /\ \A i \in DOMAIN podcasts : ~podcasts[i].isListened /\ podcasts[i].progress = 0

C19_PlaybackEnd ==
    [][lastOp'.op = "playbackEnd"
         => /\ Find(podcasts', currentPodcastId).isListened
            /\ Find(podcasts', currentPodcastId).progress
                 = Find(podcasts, currentPodcastId).progress
            /\ IF nextPodcastOnEnd # NULL
               THEN /\ currentPodcastId' = nextPodcastOnEnd
                    /\ isPlaying'
                    /\ nextPodcastOnEnd' = NULL
               ELSE /\ ~isPlaying'
                    /\ currentPodcastId' = currentPodcastId
                    /\ nextPodcastOnEnd' = NULL]_vars

\* a lesson with stored progress 0 ended with nothing queued
C19_Witness ==
    /\ lastOp.op = "playbackEnd"
    /\ currentPodcastId = lastOp.id
    /\ ~isPlaying
    /\ nextPodcastOnEnd = NULL
    /\ Find(podcasts, currentPodcastId).isListened
    /\ Find(podcasts, currentPodcastId).progress = 0

\* --------------------------------------------------------------- C20
\* C20: at first run the streak state is enabled = false, currentStreak = 0,
\* lastListenDate = null, history empty, completionDate = null and
\* completedToday empty, and as long as the user has not enabled the streak
\* (no run of SpecProgress touches the streak settings) no playback event
\* changes it.
C20_FirstRunStreakOff ==
    /\ ~streakData.enabled
    /\ streakData.currentStreak = 0
    /\ streakData.lastListenDate = NoDate
    /\ streakData.history = <<>>
    /\ streakData.completionDate = NoDate
    /\ streakData.completedToday = <<>>

\* --------------------------------------------------------------- C21
\* C21: with the streak enabled and a difficulty other than easy (as in every
\* state of the playback specification), a lesson that playback has taken to
\* its end and so made completed, by a flushed timeUpdate or by ended in
\* either order, is eventually among today's completions and counts toward
\* today's goal.
C21_EndCountsTowardGoal ==
    \A id \in LibIds :
        (HasId(podcasts, id) /\ Find(podcasts, id).isListened)
            ~> (/\ Contains(getTodaysCompletions(streakData, todayStr), id)
                /\ isTodayComplete(streakData, todayStr))

\* --------------------------------------------------------------- C22
\* C22: whenever completionDate is today, every id in completedToday is the
\* id of a lesson that is in the library and is completed, whatever playback,
\* manual toggles, review confirms, deletes, resets and changes of the
\* streak switch or the difficulty have happened.
C22_CompletedTodayInLibrary ==
    streakData.completionDate = now
        => \A i \in DOMAIN streakData.completedToday :
             /\ HasId(podcasts, streakData.completedToday[i])
             /\ Find(podcasts, streakData.completedToday[i]).isListened

\* --------------------------------------------------------------- C23
\* C23: a queued target is started only by the end of the review lesson that
\* queued it.  When a lesson ends that is not the review lesson of the
\* pending queue (the user selected another lesson after confirming), the
\* playback stops and the active lesson stays; the active lesson changes on
\* an end only to the target queued by the lesson that ended.
C23_QueuedOnlyByItsReview ==
    [][lastOp'.op = "playbackEnd"
         => /\ (queuedBy # currentPodcastId)
               => (~isPlaying' /\ currentPodcastId' = currentPodcastId)
            /\ (currentPodcastId' # currentPodcastId)
               => (queuedBy = currentPodcastId /\ currentPodcastId' = nextPodcastOnEnd)]_vars

\* --------------------------------------------------------------- C24
\* C24: in every reachable state the active lesson id is none or the id of a
\* lesson of the library, and isPlaying implies that there is an active
\* lesson, also after the active lesson, a queued target or everything was
\* deleted.
C24_ActiveLessonExists ==
    /\ currentPodcastId = NULL \/ HasId(podcasts, currentPodcastId)
    /\ isPlaying => currentPodcastId # NULL

\* --------------------------------------------------------------- C25
\* C25: at most one flush timer is pending at any time, and after the active
\* lesson has changed no timer set for the previous lesson is still pending:
\* the only timer there can be is the one of the mounted Player.
C25_OneTimerPending ==
    /\ Cardinality(orphans) + (IF debounce.pending THEN 1 ELSE 0) <= 1
    /\ orphans = {}

\* --------------------------------------------------------------- C26
\* C26: selecting a lesson X of the library that is not the active one opens
\* the review prompt (reviewLesson = the lesson just before X in the display
\* order, targetLesson = X) and starts nothing exactly when review mode is
\* on, X is not first in the display order and the lesson just before X is
\* completed; in every other case X is started directly and no prompt is
\* opened; selecting the active lesson only toggles isPlaying.
C26_SelectOpensReviewIff ==
    [][(lastOp'.op = "selectPodcast" /\ HasId(podcasts, lastOp'.id))
         => LET X == lastOp'.id
                sorted == allPodcastsSorted(podcasts)
                i == FindIndex(sorted, X)
                review == reviewModeEnabled /\ i > 1 /\ sorted[i - 1].isListened
            IN IF X = currentPodcastId
               THEN /\ isPlaying' = ~isPlaying
                    /\ UNCHANGED <<currentPodcastId, isPlayerExpanded, activePlayerTime,
                                   reviewVars, libVars, streakData, settingsVars>>
               ELSE IF review
               THEN /\ reviewPrompt' = [show |-> TRUE,
                                        podcastToReview |-> sorted[i - 1].id,
                                        podcastToPlay |-> X]
                    /\ UNCHANGED <<playVars, nextPodcastOnEnd, libVars, streakData>>
               ELSE /\ currentPodcastId' = X
                    /\ isPlaying'
                    /\ activePlayerTime' = Find(podcasts, X).progress
                    /\ reviewPrompt' = NoPrompt
                    /\ UNCHANGED <<nextPodcastOnEnd, libVars, streakData>>]_vars

\* with p3 playing, the selection of p2 opened the prompt to review p1
C26_Witness ==
    /\ lastOp.op = "selectPodcast" /\ lastOp.id = "p2"
    /\ reviewPrompt = [show |-> TRUE, podcastToReview |-> "p1", podcastToPlay |-> "p2"]
    /\ currentPodcastId = "p3" /\ isPlaying
    /\ Find(podcasts, "p1").isListened

\* --------------------------------------------------------------- C27
\* C27: confirming a review while the difficulty is not easy, with the
\* streak switched on or off, leaves the review lesson's id out of today's
\* completions and does not change currentStreak, lastListenDate or history;
\* skipping the review starts the target lesson, closes the prompt and
\* changes no lesson and nothing of the streak record.
C27_ConfirmUnrecords ==
    [][/\ (lastOp'.op = "confirmReview" /\ streakData.difficulty # "easy")
          => /\ ~Contains(getTodaysCompletions(streakData', todayStr), lastOp'.id)
             /\ streakData'.currentStreak = streakData.currentStreak
             /\ streakData'.lastListenDate = streakData.lastListenDate
             /\ streakData'.history = streakData.history
       /\ lastOp'.op = "cancelReview"
          => /\ currentPodcastId' = reviewPrompt.podcastToPlay
             /\ isPlaying'
             /\ reviewPrompt' = NoPrompt
             /\ UNCHANGED <<podcasts, streakData>>]_vars

\* --------------------------------------------------------------- C28
\* C28: resume from the last position.  Whenever a lesson L is started (by a
\* direct selection, a review confirm, a skip, the queued start at the end
\* of the review lesson, or the play button of a collection), the live
\* position becomes the stored progress of L at that moment and isPlaying
\* becomes true; the loaded event seeks the audio element to the stored
\* progress of L; so after a review confirm the live position is 0.
C28_ResumeFromStored ==
    [][LET op == lastOp'.op
           started ==
               \/ op = "selectPodcast" /\ currentPodcastId' # currentPodcastId
               \/ op = "confirmReview"
               \/ op = "cancelReview"
               \/ op = "playbackEnd" /\ nextPodcastOnEnd # NULL
               \/ op = "playCollection" /\ FilterCollection(podcasts, lastOp'.id) # <<>>
       IN /\ started
             => /\ isPlaying'
                /\ activePlayerTime' = Find(podcasts', currentPodcastId').progress
          /\ op = "confirmReview" => activePlayerTime' = 0
          /\ op = "loadedData"
             => /\ audioTime' = Find(podcasts, currentPodcastId).progress
                /\ activePlayerTime' = Find(podcasts, currentPodcastId).progress]_vars

\* --------------------------------------------------------------- C29
\* C29: a manual seek to position p sets the live position and the stored
\* progress of the lesson to p at once, whatever timer is pending, and marks
\* the lesson completed by the threshold rule of a progress update only: a
\* seek to p < duration - 1 leaves isListened and today's completions as
\* they were and makes no recordCompletion call, and recordCompletion is
\* called once exactly when the seek completes the lesson with the streak
\* enabled and a difficulty other than easy.
C29_SeekSavesAtOnce ==
    [][lastOp'.op = "seek"
         => LET id == lastOp'.id
                p == lastOp'.n
                old == Find(podcasts, id)
                new == Find(podcasts', id)
                isFinished == old.duration > 0 /\ p >= old.duration - 1
            IN /\ id = currentPodcastId
               /\ activePlayerTime' = p
               /\ audioTime' = p
               /\ new = [old EXCEPT !.progress = p,
                                    !.isListened = old.isListened \/ isFinished]
               /\ \A i \in DOMAIN podcasts : podcasts[i].id # id => podcasts'[i] = podcasts[i]
               /\ lastOp'.calls = IF isFinished /\ ~old.isListened /\ streakData.enabled
                                     /\ streakData.difficulty # "easy"
                                  THEN 1 ELSE 0
               /\ p < old.duration - 1
                    => /\ new.isListened = old.isListened
                       /\ lastOp'.calls = 0
                       /\ streakData'.completedToday = streakData.completedToday
                       /\ streakData'.completionDate = streakData.completionDate]_vars

\* a seek to 50 was saved while the timer set at 30 is still pending
C29_Witness ==
    /\ lastOp.op = "seek" /\ lastOp.n = 50
    /\ debounce.pending /\ debounce.at = 30
    /\ Find(podcasts, currentPodcastId).progress = 50
    /\ ~Find(podcasts, currentPodcastId).isListened
    /\ activePlayerTime = 50
    /\ streakData.difficulty = "normal"

\* --------------------------------------------------------------- C30
\* C30: mode gating.  With difficulty easy, recordCompletion and
\* unrecordCompletion change nothing of the streak data, and recordActivity,
\* which every progress update makes when the streak is enabled, grants the
\* award of the date on its first call of that date (lastListenDate becomes
\* the date, currentStreak follows the consecutive-day rule) and changes
\* nothing afterwards; with any other difficulty recordActivity changes
\* nothing; recordActivity never changes completionDate or completedToday.
C30_ModeGating ==
    [][LET op == lastOp'.op
           easy == streakData.difficulty = "easy"
           activity == \/ op = "recordActivity"
                       \/ op = "updatePodcastProgress" /\ streakData.enabled
       IN /\ (op \in {"recordCompletion", "unrecordCompletion"} /\ easy)
             => streakData' = streakData
          /\ (activity /\ easy)
             => IF streakData.lastListenDate = now
                THEN streakData' = streakData
                ELSE /\ streakData'.lastListenDate = now
                     /\ streakData'.currentStreak =
                          (IF streakData.lastListenDate = now - 1
                           THEN streakData.currentStreak + 1 ELSE 1)
          /\ (op = "recordActivity" /\ ~easy) => streakData' = streakData
          /\ (activity /\ (easy \/ op = "recordActivity"))
             => /\ streakData'.completionDate = streakData.completionDate
                /\ streakData'.completedToday = streakData.completedToday]_vars

\* --------------------------------------------------------------- C31
\* C31: whenever the goal of the day is met with the streak enabled and a
\* difficulty other than easy (isTodayComplete is true), the award of today
\* has been granted (lastListenDate is today), also after the difficulty was
\* lowered with completions already recorded today.
C31_GoalMetImpliesAward ==
    (streakData.enabled /\ streakData.difficulty # "easy"
       /\ isTodayComplete(streakData, todayStr))
        => streakData.lastListenDate = now

\* --------------------------------------------------------------- C32
\* C32: without imports, lastListenDate is null exactly when currentStreak
\* is 0; when it is not null it is in history and is the latest date there;
\* and history holds each of the currentStreak consecutive dates that end at
\* lastListenDate and not the date just before them (the history of the
\* model never reaches the 365 entries that are kept).
C32_StreakHistoryConsistent ==
    LET last == streakData.lastListenDate
        n == streakData.currentStreak
        h == Range(streakData.history)
    IN /\ n >= 0
       /\ (last = NoDate) <=> (n = 0)
       /\ last # NoDate
            => /\ last \in h
               /\ \A d \in h : d <= last
               /\ \A k \in 0..(n - 1) : (last - k) \in h
               /\ (last - n) \notin h

\* awards on days 1, 3 and 4: a streak of 2 that ends today, after a gap
C32_Witness ==
    /\ streakData.history = <<1, 3, 4>>
    /\ streakData.lastListenDate = 4
    /\ streakData.currentStreak = 2
    /\ now = 4

\* --------------------------------------------------------------- C33
\* C33: after any award history holds no date twice and at most 365
\* entries, and the entries kept are the most recent distinct dates by value
\* among the stored ones and today: a date that was dropped is older than
\* every date that was kept, also when the stored history was not in
\* ascending order.
C33_HistoryKeepsMostRecent ==
    [][(lastOp'.op \in {"recordActivity", "recordCompletion"}
          /\ streakData'.lastListenDate # streakData.lastListenDate)
         => LET all == Range(streakData.history) \cup {now}
                kept == Range(streakData'.history)
                h == streakData'.history
            IN /\ \A i, j \in DOMAIN h : h[i] = h[j] => i = j
               /\ Len(h) <= HistoryKeep
               /\ kept \subseteq all
               /\ now \in kept
               /\ Cardinality(kept) = IF Cardinality(all) <= HistoryKeep
                                      THEN Cardinality(all) ELSE HistoryKeep
               /\ \A d \in all \ kept : \A e \in kept : d < e]_vars

\* C34: in every reachable state each lesson whose duration is known
\* (> 0) has 0 <= progress <= duration, whatever wrote the progress
\* (debounced flush, flush after unmount, seek, toggle, import).
C34_ProgressWithinDuration ==
    \A i \in DOMAIN podcasts :
        podcasts[i].duration > 0 =>
            /\ 0 <= podcasts[i].progress
            /\ podcasts[i].progress <= podcasts[i].duration

\* C35: an operation that names a lesson id which is not in the library
\* (a progress update, also the one of a timer that fires after its lesson
\* was deleted, a duration update, a move to a collection) leaves the
\* library, the collections and the streak data unchanged, in every
\* difficulty.
C35_MissingIdIsNoOp ==
    [][(/\ lastOp'.op \in {"updatePodcastProgress", "flushDebounce", "flushOrphan",
                           "updatePodcastDuration", "movePodcastToCollection"}
        /\ ~HasId(podcasts, lastOp'.id))
       => /\ podcasts' = podcasts
          /\ collections' = collections
          /\ streakData' = streakData]_vars

\* C36: deleting a lesson of the library removes that lesson and no other,
\* asks the byte store to delete the audio file exactly when the lesson is
\* stored in IndexedDB, removes the lesson also when the byte store rejects,
\* clears the active lesson and stops playback when the lesson was the
\* active one, and (streak enabled, difficulty not easy) takes the id out of
\* completedToday while leaving currentStreak as it was.
C36_RemoveLesson ==
    [][lastOp'.op = "deletePodcast" =>
         LET id == lastOp'.id
         IN /\ HasId(podcasts, id)
            /\ ~HasId(podcasts', id)
            /\ Len(podcasts') = Len(podcasts) - 1
            /\ \A i \in DOMAIN podcasts' :
                 /\ HasId(podcasts, podcasts'[i].id)
                 /\ podcasts'[i] = Find(podcasts, podcasts'[i].id)
            /\ (lastOp'.n # 0) = (Find(podcasts, id).storage = "indexeddb")
            /\ (currentPodcastId = id => currentPodcastId' = NULL /\ ~isPlaying')
            /\ (streakData.enabled /\ streakData.difficulty # "easy"
                  => /\ ~Contains(streakData'.completedToday, id)
                     /\ streakData'.currentStreak = streakData.currentStreak)]_vars

\* the active lesson, completed today, has been deleted although the byte
\* store rejected; the other lesson is still in the library
C36_Witness ==
    /\ lastOp.op = "deletePodcast" /\ lastOp.n = 2
    /\ lastOp.id \in calledToday
    /\ ~HasId(podcasts, lastOp.id)
    /\ Len(podcasts) = 1
    /\ currentPodcastId = NULL /\ ~isPlaying /\ isPlayerExpanded

\* C37: an import sets every setting whose field is present in the file to
\* the value of the file, also when that value is empty, false or null, and
\* leaves every setting whose field is absent as it was.
C37_ImportOverwritesPresent ==
    [][(lastOp'.op = "importData" /\ lastOp'.n = 0) =>
         LET doc == lastOp'.doc
             Set(field, old) == IF field.present THEN field.value ELSE old
         IN /\ title' = Set(doc.appTitle, title)
            /\ theme' = Set(doc.theme, theme)
            /\ streakData' = Set(doc.streakData, streakData)
            /\ hideCompleted' = Set(doc.hideCompleted, hideCompleted)
            /\ reviewModeEnabled' = Set(doc.reviewModeEnabled, reviewModeEnabled)
            /\ customArtwork' = Set(doc.customArtwork, customArtwork)
            /\ completionSound' = Set(doc.completionSound, completionSound)
            /\ useCollectionsView' = Set(doc.useCollectionsView, useCollectionsView)
            /\ playOnNavigate' = Set(doc.playOnNavigate, playOnNavigate)
            /\ collections' = Set(doc.collections, collections)]_vars

\* C38: importing the backup file that was just exported changes nothing
\* of the persistent state: the lessons (progress, isListened, collectionId,
\* duration), the collections, the streak data and the settings are after
\* the import what they were before the export.
C38_ExportImportIdentity ==
    [][(lastOp'.op = "importData" /\ lastOp'.doc = handleExportData) =>
         /\ lastOp'.n = 0
         /\ podcasts' = podcasts
         /\ collections' = collections
         /\ streakData' = streakData
         /\ title' = title /\ theme' = theme /\ hideCompleted' = hideCompleted
         /\ reviewModeEnabled' = reviewModeEnabled
         /\ customArtwork' = customArtwork /\ completionSound' = completionSound
         /\ useCollectionsView' = useCollectionsView
         /\ playOnNavigate' = playOnNavigate]_vars

\* a round trip of a library with a completed lesson in a collection, an
\* untouched lesson, an empty title and no custom artwork
C38_Witness ==
    /\ lastOp.op = "importData" /\ lastOp.n = 0
    /\ lastOp.doc = handleExportData
    /\ title = "" /\ customArtwork = NULL /\ hideCompleted
    /\ streakData.completedToday # <<>>
    /\ \E i \in DOMAIN podcasts :
         /\ podcasts[i].collectionId = "coll-1"
         /\ podcasts[i].isListened /\ podcasts[i].progress = 99
    /\ \E i \in DOMAIN podcasts :
         /\ podcasts[i].collectionId = NULL
         /\ ~podcasts[i].isListened /\ podcasts[i].progress = 0

\* C39: in every reachable state the collectionId of each lesson is null
\* or the id of a collection that exists, also after an import that
\* replaces the list of collections.
C39_CollectionIdsExist ==
    \A i \in DOMAIN podcasts :
        \/ podcasts[i].collectionId = NULL
        \/ podcasts[i].collectionId \in IdsOf(collections)

\* C40: while the streak is switched off, no playback event (a flush of the
\* save timer, a seek, the end of the lesson), no completion toggle, no
\* review confirm or skip and no deletion of a lesson changes any field of
\* the streak data.
C40_DisabledStreakUntouched ==
    [][(/\ ~streakData.enabled
        /\ lastOp'.op \in {"flushDebounce", "flushOrphan", "seek", "playbackEnd",
                           "toggleComplete", "confirmReview", "cancelReview",
                           "deletePodcast"})
       => streakData' = streakData]_vars

====
